---- MODULE Spec2Model ----
(***************************************************************************)
(* A model of the PyLag particle-tracking core.                            *)
(*                                                                         *)
(*   ReaderSpec  the FVCOM data reader's local host search                 *)
(*               (fvcom_data_reader.pyx) run one loop iteration at a time, *)
(*               and the RK4 integrator (integrator.pyx) that calls it.    *)
(*   Spec        the particle drivers of model.pyx (FVCOMOPTModel and      *)
(*               GOTMOPTModel): seed, update, get_diagnostics.             *)
(*   FrameSpec   read_data of the data readers: the time-dependent buffers  *)
(*               and the frame of the input they hold.                     *)
(*   PassSpec    one pass of update over the particle array, particle by   *)
(*               particle in either order.                                 *)
(*   CalcSpec    the horizontal boundary condition calculators and their   *)
(*               factory, one call at a time.                              *)
(*   SampleSpec  the FVCOM reader's field samplers (velocity, omega, the   *)
(*               derivative of the vertical eddy diffusivity), one call    *)
(*               at a time.                                                *)
(*   StageSpec   one whole call of RK4Integrator.advect in velocity fields *)
(*               that vary with time, position and host.                   *)
(*                                                                         *)
(* Lengths are integers (one unit is one sixth of a mesh edge); a          *)
(* barycentric coordinate is kept as its numerator over the element's      *)
(* determinant, so every comparison the code makes is made exactly.        *)
(***************************************************************************)
EXTENDS Integers, Sequences, FiniteSets, TLC

VARIABLES
    nbe,        \* FVCOMDataReader._nbe: element adjacency, nbe[e][i+1] = _nbe[i,e]
    ls,         \* the activation of find_host_using_local_search, if any
    ap,         \* the Particle handed to RK4Integrator.advect, and what it returned
    config,     \* which driver was built, with horiz_bound_cond and vert_bound_cond
    seed_data,  \* set_particle_data: one <<x, y, z>> per particle
    particle_seed_smart_ptrs,   \* the particle seed: <<>> while None, else <<list>>
    particle_smart_ptrs,        \* the cells that hold the active particles
    particle_ptrs,              \* the active particle set
    upd,        \* the activation of update(time), if any
    diags,      \* what the last get_diagnostics returned
    err,        \* the exception the last call raised, or "none"
    rd,         \* the data reader's time-dependent buffers and its mediator's frames
    ord,        \* one update(time) pass over the particle array, with its locals
    calc,       \* one call of a boundary condition calculator and what it returned
    fs          \* one sample of a field of the data reader and what it worked out

driverVars == <<config, seed_data, particle_seed_smart_ptrs, particle_smart_ptrs, particle_ptrs, upd, diags, err>>

readerVars == <<ls, ap>>

auxVars == <<rd, ord, calc, fs>>

vars == <<nbe, ls, ap, config, seed_data, particle_seed_smart_ptrs, particle_smart_ptrs, particle_ptrs, upd, diags, err,
          rd, ord, calc, fs>>

-----------------------------------------------------------------------------
(* The mesh: four triangles in a strip, vertices listed clockwise.         *)
(*                                                                         *)
(*      3 ------ 4 ------ 5        y = L                                   *)
(*      | e0  /  |  e2  / |                                                *)
(*      |   / e1 |   / e3 |                                                *)
(*      0 ------ 1 ------ 2        y = 0                                   *)

N_VERTICES == 3

L == 6

N_elems == 4

N_nodes == 6

Elems == 0 .. (N_elems - 1)

Vertices == 0 .. (N_VERTICES - 1)

NodeX == (0 :> 0) @@ (1 :> L) @@ (2 :> 2 * L) @@ (3 :> 0) @@ (4 :> L) @@ (5 :> 2 * L)

NodeY == (0 :> 0) @@ (1 :> 0) @@ (2 :> 0) @@ (3 :> L) @@ (4 :> L) @@ (5 :> L)

\* _nv[i,e] is NV[e][i+1]
NV == (0 :> <<0, 3, 1>>) @@ (1 :> <<1, 3, 4>>) @@ (2 :> <<1, 4, 2>>) @@ (3 :> <<2, 4, 5>>)

LAND == -1

OPEN == -2

BoundaryCodes == {LAND, OPEN}

\* The adjacency of the strip with the six boundary edges coded by b:
\* _nbe[i,e] is the element across the side opposite vertex i.
NbeOf(b) ==
    (0 :> <<1, b[1], b[2]>>) @@ (1 :> <<b[3], 2, 0>>) @@
    (2 :> <<3, b[4], 1>>) @@ (3 :> <<b[5], b[6], 2>>)

Topologies == { NbeOf(b) : b \in [1 .. 6 -> BoundaryCodes] }

\* Points a search or a step may be asked about.
GridX == { x \in (0 - 2) .. (2 * L + 2) : x % 2 = 0 }

GridY == { y \in (0 - 2) .. (L + 2) : y % 2 = 0 }

-----------------------------------------------------------------------------
(* Indexing a typed memoryview: Cython's default directives wrap a         *)
(* negative index once (and raise IndexError outside the axis, which the   *)
(* codes -1 and -2 never are on a mesh of two elements or more).           *)

Wrap(idx, n) == IF idx < 0 THEN idx + n ELSE idx

nv(i, e) == NV[Wrap(e, N_elems)][i + 1]

Nbe(i, e) == nbe[Wrap(e, N_elems)][i + 1]

(* Barycentric coordinates as numerators over the determinant: phi[i] is   *)
(* PhiNum(x, y, e)[i+1] / Det(e), with the sign moved so that Det(e) > 0.  *)

RawDet(e) ==
    LET x0 == NodeX[nv(0, e)]  y0 == NodeY[nv(0, e)]
        x1 == NodeX[nv(1, e)]  y1 == NodeY[nv(1, e)]
        x2 == NodeX[nv(2, e)]  y2 == NodeY[nv(2, e)]
    IN  (y2 - y0) * (x1 - x0) - (x0 - x2) * (y0 - y1)

Sgn(v) == IF v < 0 THEN 0 - 1 ELSE 1

Det(e) == Sgn(RawDet(e)) * RawDet(e)

get_barycentric_coords(x, y, e) ==
    LET x0 == NodeX[nv(0, e)]  y0 == NodeY[nv(0, e)]
        x1 == NodeX[nv(1, e)]  y1 == NodeY[nv(1, e)]
        x2 == NodeX[nv(2, e)]  y2 == NodeY[nv(2, e)]
        s  == Sgn(RawDet(e))
        p1 == s * ((y2 - y0) * (x - x0) + (x0 - x2) * (y - y0))
        p2 == s * ((y0 - y1) * (x - x0) + (x1 - x0) * (y - y0))
    IN  <<Det(e) - p1 - p2, p1, p2>>

\* self._get_phi(xpos, ypos, host, phi)
PhiNum(x, y, e) == get_barycentric_coords(x, y, e)

\* The value of an expression worked out once: Only({ F(v) : v \in {e} }) is
\* F(e).
Only(S) == CHOOSE v \in S : TRUE

float_min(a, b) == IF a < b THEN a ELSE b

\* EPSILON is 1 / (EPSILON_INV_ROOT * EPSILON_INV_ROOT) = 1.0e-10
EPSILON_INV_ROOT == 100000

\* num / det >= -EPSILON, for det > 0
GeqMinusEpsilon(num, det) ==
    num >= 0 \/ (0 - num) <= (det \div EPSILON_INV_ROOT) \div EPSILON_INV_ROOT

-----------------------------------------------------------------------------
(* FVCOMDataReader.find_host_using_local_search(xpos, ypos, guess), one    *)
(* iteration of its `while True' per step.                                 *)

\* Values the uninitialised C local n_host_land_boundaries may hold.
UninitInts == {0 - 3, 1, 2}

IdleSearch ==
    [pc |-> "idle", x |-> 0, y |-> 0, start |-> 0, guess |-> 0, from |-> 0,
     idx |-> 0, iter |-> 0, found |-> FALSE, n_land |-> 0, ret |-> 0]

\* ls.iter counts the iterations of the walk up to MaxWalk and stays there.
MaxWalk == 6

\* phi_test = float_min(float_min(phi[0], phi[1]), phi[2])
PhiTest(x, y, e) ==
    Only({ float_min(float_min(phi[1], phi[2]), phi[3]) : phi \in {PhiNum(x, y, e)} })

\* A test that also takes a point up to one determinant outside the element.
HostFound_Loose(x, y, e) == PhiTest(x, y, e) >= 0 - Det(e)

\* phi_test >= 0.0, or phi_test >= -EPSILON
HostFound(x, y, e) == GeqMinusEpsilon(PhiTest(x, y, e), Det(e))

\* for i in xrange(3): if self._nbe[i,guess] == -1: n_land_boundaries += 1
NLandBoundaries(e) == Cardinality({ i \in Vertices : Nbe(i, e) = LAND })

\* A walk that always leaves by the side opposite vertex 0.
NextIndex_First(x, y, e) == 0

\* The if / elif chain on phi[i] == phi_test: the first index that matches.
NextIndex(x, y, e) ==
    Only({ IF phi[1] = t THEN 0 ELSE IF phi[2] = t THEN 1 ELSE 2 :
           phi \in {PhiNum(x, y, e)}, t \in {PhiTest(x, y, e)} })

\* phi[i] is the least of the three coordinates.
IsLeast(i, x, y, e) == PhiNum(x, y, e)[i + 1] = PhiTest(x, y, e)

LocalSearchCall(x, y, guess) ==
    /\ ls.pc = "idle"
    /\ ap.pc = "idle"
    /\ ls' = [IdleSearch EXCEPT !.pc = "walk", !.x = x, !.y = y,
                                !.start = guess, !.guess = guess, !.from = guess]
    /\ UNCHANGED <<nbe, auxVars, ap, driverVars>>

\* host_found: the return is decided by n_host_land_boundaries, which is
\* declared and never assigned.
LocalSearchFound ==
    /\ ls.pc = "walk"
    /\ HostFound(ls.x, ls.y, ls.guess)
    /\ \E n_host_land_boundaries \in UninitInts :
          ls' = [ls EXCEPT !.pc = "done", !.found = TRUE,
                           !.n_land = NLandBoundaries(ls.guess),
                           !.ret = IF n_host_land_boundaries < 2
                                   THEN ls.guess ELSE 0 - 1]
    /\ UNCHANGED <<nbe, auxVars, ap, driverVars>>

LocalSearchNext(x, y, e) == Nbe(NextIndex(x, y, e), e)

\* not found: guess = self._nbe[i,guess]; if guess == -1: return guess
LocalSearchWalk ==
    /\ ls.pc = "walk"
    /\ ~HostFound(ls.x, ls.y, ls.guess)
    /\ LET g == LocalSearchNext(ls.x, ls.y, ls.guess) IN
          ls' = [ls EXCEPT !.from = ls.guess,
                           !.idx = NextIndex(ls.x, ls.y, ls.guess),
                           !.guess = g,
                           !.iter = IF ls.iter < MaxWalk THEN ls.iter + 1 ELSE ls.iter,
                           !.pc = IF g = 0 - 1 THEN "done" ELSE "walk",
                           !.ret = IF g = 0 - 1 THEN g ELSE 0]
    /\ UNCHANGED <<nbe, auxVars, ap, driverVars>>

-----------------------------------------------------------------------------
(* RK4Integrator.advect(time, particle, data_reader) of integrator.pyx,    *)
(* one stage per step: each stage ends in data_reader.find_host, which is  *)
(* the local search above, and the stage that follows starts when that     *)
(* search has returned.                                                    *)

\* RK4Integrator._time_step
time_step == 2

\* The flow is uniform in space and steady: get_velocity gives the same
\* (u, v, omega) at every stage.
Velocities == { <<u, v, 1>> : u \in {0 - 2, 0, 2}, v \in {0 - 2, 0, 2} }

get_velocity(flow) == flow

\* k[i] = self._time_step * self.vel[i]
K(flow) == [i \in 1 .. 3 |-> time_step * get_velocity(flow)[i]]

\* The particles advect is handed: each lies in its host element.
StartParticles ==
    { [xpos |-> 2, ypos |-> 2, zpos |-> 0, host_horizontal_elem |-> 0],
      [xpos |-> 4, ypos |-> 4, zpos |-> 0, host_horizontal_elem |-> 1],
      [xpos |-> 8, ypos |-> 2, zpos |-> 0, host_horizontal_elem |-> 2],
      [xpos |-> 10, ypos |-> 4, zpos |-> 0, host_horizontal_elem |-> 3] }

IdleParticle ==
    [pc |-> "idle", xpos |-> 0, ypos |-> 0, zpos |-> 0, host_horizontal_elem |-> 0,
     flow |-> <<0, 0, 0>>, x0 |-> 0, y0 |-> 0, z0 |-> 0, host0 |-> 0]

\* Stages 2 and 3 sample at particle + 0.5 * k, stage 4 at particle + k, and
\* the new position is particle + (k1 + 2 k2 + 2 k3 + k4) / 6.
StagePoint(stage, p) ==
    LET k == K(p.flow) IN
    CASE stage \in {"stage2", "stage3"} ->
            <<p.xpos + k[1] \div 2, p.ypos + k[2] \div 2, p.zpos + k[3] \div 2>>
      [] stage = "stage4" ->
            <<p.xpos + k[1], p.ypos + k[2], p.zpos + k[3]>>
      [] OTHER ->
            <<p.xpos + (k[1] + 2 * k[1] + 2 * k[1] + k[1]) \div 6,
              p.ypos + (k[2] + 2 * k[2] + 2 * k[2] + k[2]) \div 6,
              p.zpos + (k[3] + 2 * k[3] + 2 * k[3] + k[3]) \div 6>>

NextStage(stage) ==
    CASE stage = "stage2" -> "stage3"
      [] stage = "stage3" -> "stage4"
      [] stage = "stage4" -> "new_position"
      [] OTHER -> "returned"

\* host = data_reader.find_host(xpos, ypos, host)
FindHostCall(x, y, guess) ==
    [IdleSearch EXCEPT !.pc = "walk", !.x = x, !.y = y,
                       !.start = guess, !.guess = guess, !.from = guess]

\* Stage 1, up to the find_host of stage 2.
AdvectCall(p, flow) ==
    /\ ap.pc = "idle"
    /\ ls.pc = "idle"
    /\ ap' = [IdleParticle EXCEPT !.pc = "stage2", !.xpos = p.xpos, !.ypos = p.ypos,
                  !.zpos = p.zpos, !.host_horizontal_elem = p.host_horizontal_elem,
                  !.flow = flow, !.x0 = p.xpos, !.y0 = p.ypos, !.z0 = p.zpos,
                  !.host0 = p.host_horizontal_elem]
    /\ LET pt == StagePoint("stage2", ap') IN
          ls' = FindHostCall(pt[1], pt[2], p.host_horizontal_elem)
    /\ UNCHANGED <<nbe, auxVars, driverVars>>

\* if host == -1: return
AdvectReturnEarly ==
    /\ ap.pc \in {"stage2", "stage3", "stage4", "new_position"}
    /\ ls.pc = "done"
    /\ ls.ret = 0 - 1
    /\ ap' = [ap EXCEPT !.pc = "returned"]
    /\ UNCHANGED <<nbe, auxVars, ls, driverVars>>

\* The rest of a stage, up to the find_host of the next one.
AdvectStage ==
    /\ ap.pc \in {"stage2", "stage3", "stage4"}
    /\ ls.pc = "done"
    /\ ls.ret # 0 - 1
    /\ ap' = [ap EXCEPT !.pc = NextStage(ap.pc)]
    /\ LET pt == StagePoint(ap'.pc, ap) IN
          ls' = FindHostCall(pt[1], pt[2], ls.ret)
    /\ UNCHANGED <<nbe, auxVars, driverVars>>

\* Update the particle's position
AdvectCommit ==
    /\ ap.pc = "new_position"
    /\ ls.pc = "done"
    /\ ls.ret # 0 - 1
    /\ LET pt == StagePoint("new_position", ap) IN
          ap' = [ap EXCEPT !.pc = "returned", !.xpos = pt[1], !.ypos = pt[2],
                           !.zpos = pt[3], !.host_horizontal_elem = ls.ret]
    /\ UNCHANGED <<nbe, auxVars, ls, driverVars>>

-----------------------------------------------------------------------------

-----------------------------------------------------------------------------
(* The readers' time-dependent data.  A record of the input file is known   *)
(* by its time index; the value of a buffer is the index of the record it   *)
(* was filled from, the value of a time reference is the record's time.     *)

\* The times of the records in the input file, in file order.
FileTimes == <<0, 3, 6, 9>>

\* The times read_data is called with; the first and the last two lie in no frame.
CallTimes == -1 .. 10

ReaderKinds == {"FVCOM", "GOTM"}

\* What _read_time_dependent_vars assigns, in the order it assigns it.
TimeDependentVars(kind) ==
    IF kind = "GOTM"
    THEN <<"time", "zeta", "zlev", "kh">>
    ELSE <<"time", "zeta", "u", "v", "omega", "kh", "viscofh">>

VarNames(kind) == { TimeDependentVars(kind)[j] : j \in 1..Len(TimeDependentVars(kind)) }

\* mediator.get_time_at_*_time_index and get_time_dependent_variable_at_*_time_index
MediatorGet(name, tidx) == IF name = "time" THEN FileTimes[tidx] ELSE tidx

\* The frames [FileTimes[i], FileTimes[i+1]) the mediator can hold.
Frames == 1 .. (Len(FileTimes) - 1)

InFrame(time, i) == FileTimes[i] <= time /\ time < FileTimes[i + 1]

\* interp.get_linear_fraction, as <<numerator, denominator>>
get_linear_fraction(var, lower, upper) == <<var - lower, upper - lower>>

\* time_fraction < 0.0 or time_fraction >= 1.0, with a test that lets the
\* end of the frame through
NeedsNewFrame_Closed(r, time) ==
    \E f \in {get_linear_fraction(time, r.last["time"], r.next["time"])} :
        f[1] < 0 \/ f[1] > f[2]

\* time_fraction < 0.0 or time_fraction >= 1.0
NeedsNewFrame(r, time) ==
    \E f \in {get_linear_fraction(time, r.last["time"], r.next["time"])} :
        f[1] < 0 \/ f[1] >= f[2]

\* GOTMDataReader._interpolate_in_time: the fraction every gridded field is
\* interpolated with.  The FVCOM reader interpolates when it is sampled.
interpolate_in_time(r, time) ==
    IF r.kind = "GOTM"
    THEN [r EXCEPT !.time_fraction =
             get_linear_fraction(time, r.last["time"], r.next["time"])]
    ELSE r

\* The reader once setup_data_access has returned with the mediator on frame i.
LoadedReader(kind, i) ==
    [kind |-> kind, pc |-> "idle", k |-> 0, time |-> FileTimes[i], returned |-> FALSE,
     tidx_last |-> i, tidx_next |-> i + 1,
     last |-> [name \in VarNames(kind) |-> MediatorGet(name, i)],
     next |-> [name \in VarNames(kind) |-> MediatorGet(name, i + 1)],
     time_fraction |-> <<0, 1>>,
     seen |-> <<>>]

\* No update pass is in progress.
IdlePass == [pc |-> "idle"]

\* No calculator has been called.
IdleCalc == [op |-> "none"]

\* No field has been sampled.
IdleSample == [op |-> "none"]

\* No driver is built around the reader.
NoDriver ==
    /\ config = [model |-> "none", horiz_bound_cond |-> "None", vert_bound_cond |-> "None"]
    /\ seed_data = <<>>
    /\ particle_seed_smart_ptrs = <<>>
    /\ particle_smart_ptrs = <<>>
    /\ particle_ptrs = <<>>
    /\ upd = [pc |-> "idle", i |-> 0, xpos |-> 0, ypos |-> 0, zpos |-> 0, bc_iters |-> 0]
    /\ diags = <<>>
    /\ err = "none"

ReaderInit ==
    /\ nbe \in Topologies
    /\ ls = IdleSearch
    /\ ap = IdleParticle
    /\ NoDriver
    /\ rd = LoadedReader("FVCOM", 1)
    /\ ord = IdlePass
    /\ calc = IdleCalc
    /\ fs = IdleSample

ReaderNext ==
    \/ \E x \in GridX, y \in GridY, guess \in Elems : LocalSearchCall(x, y, guess)
    \/ LocalSearchFound
    \/ LocalSearchWalk
    \/ \E p \in StartParticles, flow \in Velocities : AdvectCall(p, flow)
    \/ AdvectReturnEarly
    \/ AdvectStage
    \/ AdvectCommit

ReaderSpec == ReaderInit /\ [][ReaderNext]_vars

-----------------------------------------------------------------------------
(* The data reader as the drivers of model.pyx call it:                    *)
(*     flag, host = find_host(x_old, y_old, x_new, y_new, guess)           *)
(*     get_zmin / get_zmax(time, x, y, host), find_zlayer(...)             *)
(* The FVCOM reader of this interface is described in the design document  *)
(* (sections 4.A and 4.C); the fields are steady.                          *)

IN_DOMAIN == 0

LAND_CROSS == LAND

OPEN_CROSS == OPEN

SEARCH_FAIL == OPEN - 1

max_walk_steps == 2

\* Edge-tie rule: among the indices of least coordinate prefer a neighbour
\* that is not -1, then one that is not -2, then the lower index.
Min(S) == CHOOSE m \in S : \A n \in S : m <= n

Prefer(least, e) ==
    LET inner == { i \in least : Nbe(i, e) >= 0 }
        open  == { i \in least : Nbe(i, e) = OPEN }
    IN  IF inner # {} THEN Min(inner) ELSE IF open # {} THEN Min(open) ELSE Min(least)

TieIndex(x, y, e) ==
    Only({ Prefer(least, e) : least \in {{ i \in Vertices : IsLeast(i, x, y, e) }} })

RECURSIVE FindHostWalk(_, _, _, _, _)
FindHostWalk(x, y, e, start, steps) ==
    IF HostFound(x, y, e)
    THEN IF NLandBoundaries(e) >= 2 THEN <<LAND_CROSS, e>> ELSE <<IN_DOMAIN, e>>
    ELSE Only({ IF n = LAND THEN <<LAND_CROSS, e>>
                ELSE IF n = OPEN THEN <<OPEN_CROSS, e>>
                ELSE IF n = start \/ steps >= max_walk_steps THEN <<SEARCH_FAIL, e>>
                ELSE FindHostWalk(x, y, n, start, steps + 1) :
                n \in {Nbe(TieIndex(x, y, e), e)} })

find_host(x_old, y_old, x_new, y_new, guess) == FindHostWalk(x_new, y_new, guess, guess, 0)

\* FVCOMDataReader.find_host_using_global_search: the first element, in index
\* order, that holds the point, or -1.
find_host_using_global_search(x, y) ==
    LET hits == { i \in Elems : HostFound(x, y, i) } IN
    IF hits = {} THEN 0 - 1 ELSE Min(hits)

\* Bathymetry h under each element; the sea surface elevation zeta is zero.
Depth == <<4, 4, 2, 2>>

FVCOM_get_zmin(x, y, host) == 0 - Depth[host + 1]

FVCOM_get_zmax(x, y, host) == 0

\* Two sigma layers, scanned downward from k = 0.
FVCOM_find_zlayer(z, zmin, zmax) == IF 2 * z >= zmin + zmax THEN 0 ELSE 1

-----------------------------------------------------------------------------
(* GOTMDataReader (integrator.pyx): a water column in sigma coordinates,   *)
(* one unit of the model being 1 / SigmaUnits.                             *)

SigmaUnits == 4

GOTM_get_zmin == 0 - SigmaUnits

GOTM_get_zmax == 0

\* self._zlev: the interfaces of _n_zlay = 2 layers, bottom first.
n_zlay == 2

zlev == <<0 - SigmaUnits, (0 - SigmaUnits) \div 2, 0>>

InLayer(z, k) == z <= zlev[k + 2] /\ z >= zlev[k + 1]

\* find_zlayer: the first k of guess-2 .. guess+1 that is a layer holding z,
\* else the first layer holding z, else ValueError (-1 here).
GOTM_find_zlayer(z, guess) ==
    LET near == { k \in (guess - 2) .. (guess + 1) :
                     ~(k < 0 \/ k >= n_zlay) /\ InLayer(z, k) }
        all  == { k \in 0 .. (n_zlay - 1) : InLayer(z, k) }
    IN  IF near # {} THEN Min(near) ELSE IF all # {} THEN Min(all) ELSE 0 - 1

-----------------------------------------------------------------------------
(* Boundary condition calculators.                                         *)

\* Reflecting (vertical): z' = 2 bound - z, at most twice, then clamped.
Reflect(z, zmin, zmax) ==
    IF z > zmax THEN 2 * zmax - z ELSE IF z < zmin THEN 2 * zmin - z ELSE z

Clamp(z, zmin, zmax) == IF z > zmax THEN zmax ELSE IF z < zmin THEN zmin ELSE z

VertBCApply(z, zmin, zmax) ==
    Clamp(Reflect(Reflect(z, zmin, zmax), zmin, zmax), zmin, zmax)

\* data_reader.get_boundary_intersection: the side of last_host the segment
\* from the old to the new position leaves the element by (the side is
\* named by the index of the vertex opposite it), or -1 if it leaves by none.
\* Side i is left at the fraction a[i] / (a[i] - b[i]) of the segment.
FirstSideLeft(a, b) ==
    LET out == { i \in Vertices : b[i + 1] < 0 /\ a[i + 1] >= 0 }
        first == { i \in out : \A j \in out :
                      a[i + 1] * (a[j + 1] - b[j + 1]) <= a[j + 1] * (a[i + 1] - b[i + 1]) }
    IN  IF first = {} THEN 0 - 1 ELSE Min(first)

get_boundary_intersection(x_old, y_old, x_new, y_new, last_host) ==
    Only({ FirstSideLeft(a, b) : a \in {PhiNum(x_old, y_old, last_host)},
                                 b \in {PhiNum(x_new, y_new, last_host)} })

inner_product(a, b) == a[1] * b[1] + a[2] * b[2]

\* A reflection with mult = (n . d) / (n . n): the foot of the perpendicular.
ReflectInSide_Project(x1, x2, x4) ==
    LET n == <<x2[2] - x1[2], x1[1] - x2[1]>>
        d == <<x4[1] - x1[1], x4[2] - x1[2]>>
        once == inner_product(n, d)
    IN  <<x4[1] - (once * n[1]) \div inner_product(n, n),
          x4[2] - (once * n[2]) \div inner_product(n, n)>>

\* RefHorizBoundaryConditionCalculator.apply, for the side with end points
\* x1, x2: n = (x2.y - x1.y, x1.x - x2.x), d = x4 - xi,
\* mult = 2 (n . d) / (n . n), r = d - mult n, x4' = xi + r.  xi lies on the
\* side, so n . d = n . (x4 - x1) and x4' = x4 - mult n.
ReflectInSide(x1, x2, x4) ==
    LET n == <<x2[2] - x1[2], x1[1] - x2[1]>>
        d == <<x4[1] - x1[1], x4[2] - x1[2]>>
        twice == 2 * inner_product(n, d)
    IN  <<x4[1] - (twice * n[1]) \div inner_product(n, n),
          x4[2] - (twice * n[2]) \div inner_product(n, n)>>

NodeXY(v) == <<NodeX[v], NodeY[v]>>

\* horiz_bc_calculator.apply(data_reader, x_old, y_old, x_new, y_new, last_host):
\* <<raised, x, y>>.
HorizBCApply(kind, x_old, y_old, x_new, y_new, last_host) ==
    IF kind = "restoring"
    THEN <<FALSE, x_old, y_old>>
    ELSE Only({ IF i < 0
                THEN <<TRUE, x_new, y_new>>
                ELSE <<FALSE>> \o ReflectInSide(NodeXY(nv((i + 1) % N_VERTICES, last_host)),
                                                NodeXY(nv((i + 2) % N_VERTICES, last_host)),
                                                <<x_new, y_new>>) :
                i \in {get_boundary_intersection(x_old, y_old, x_new, y_new, last_host)} })

-----------------------------------------------------------------------------
(* num_integrator.advect(time, particle, data_reader, &delta_X) as the     *)
(* driver calls it: the particle is read, the displacement is added to     *)
(* delta_X and a status is returned.  The flow is uniform and steady, so   *)
(* k1 = k2 = k3 = k4 = K(flow).                                            *)

\* Stage n of the scheme, entered with the host of stage n - 1: the host
\* search at the stage's point, then the next stage or the weighted sum.
RECURSIVE AdvectStageFrom(_, _, _, _)
AdvectStageFrom(n, p, k, host) ==
    IF n > 4
    THEN <<IN_DOMAIN, [i \in 1 .. 3 |-> (k[i] + 2 * k[i] + 2 * k[i] + k[i]) \div 6]>>
    ELSE Only({ IF s[1] # IN_DOMAIN THEN <<s[1], <<0, 0, 0>>>>
                ELSE AdvectStageFrom(n + 1, p, k, s[2]) :
                s \in {find_host(p.xpos, p.ypos,
                                 p.xpos + (IF n = 4 THEN k[1] ELSE k[1] \div 2),
                                 p.ypos + (IF n = 4 THEN k[2] ELSE k[2] \div 2), host)} })

AdvectDelta(p, flow) == AdvectStageFrom(2, p, K(flow), p.host_horizontal_elem)

-----------------------------------------------------------------------------
(* FVCOMOPTModel and GOTMOPTModel of model.pyx.                            *)

\* A Particle; zlo and zhi record the zmin and zmax the driver evaluated
\* when it last set zpos.
NewParticle(x, y, z, host, z_layer, zmin, zmax) ==
    [xpos |-> x, ypos |-> y, zpos |-> z, host_horizontal_elem |-> host,
     host_z_layer |-> z_layer, in_domain |-> TRUE, zlo |-> zmin, zhi |-> zmax]

\* ParticleSmartPtr(group_id=group, in_domain=False): every other field at
\* its default.
DefaultParticle ==
    [xpos |-> 0 - 999, ypos |-> 0 - 999, zpos |-> 0 - 999,
     host_horizontal_elem |-> 0 - 999, host_z_layer |-> 0 - 999,
     in_domain |-> FALSE, zlo |-> 0, zhi |-> 0]

IdleUpdate == [pc |-> "idle", i |-> 0, xpos |-> 0, ypos |-> 0, zpos |-> 0, bc_iters |-> 0]

\* if host_horizontal_elem >= 0: in_domain = True
SeedInDomain(host) == host >= 0

\* if z < zmin: raise ... elif z > zmax: raise ...
DepthInvalid(z, zmin, zmax) == z < zmin \/ z > zmax

\* FVCOMOPTModel._create_seed from particle k of the seed data on, with the
\* list built so far; guess is <<>> for None.  depth_coordinates is
\* "cartesian": z = z_temp + zmax.
\* The host of a seed particle: the local search from the last host found
\* if there is one, and the global search if there is none or it fails.
SeedHost(x, y, guess) ==
    IF guess = <<>> THEN find_host_using_global_search(x, y)
    ELSE Only({ IF local[1] < 0 THEN find_host_using_global_search(x, y) ELSE local[2] :
                local \in {find_host(x, y, x, y, guess[1])} })

RECURSIVE FVCOM_create_seed(_, _, _)
FVCOM_create_seed(k, guess, list) ==
    IF k > Len(seed_data) THEN [list |-> list, raised |-> FALSE]
    ELSE
    LET x == seed_data[k][1]
        y == seed_data[k][2]
        z_temp == seed_data[k][3]
    IN  Only({ IF SeedInDomain(host)
               THEN LET zmin == FVCOM_get_zmin(x, y, host)
                        zmax == FVCOM_get_zmax(x, y, host)
                        z == z_temp + zmax
                    IN  IF DepthInvalid(z, zmin, zmax)
                        THEN [list |-> list, raised |-> TRUE]
                        ELSE FVCOM_create_seed(k + 1, <<host>>,
                               Append(list, NewParticle(x, y, z, host,
                                          FVCOM_find_zlayer(z, zmin, zmax), zmin, zmax)))
               ELSE FVCOM_create_seed(k + 1, guess, Append(list, DefaultParticle)) :
               host \in {SeedHost(x, y, guess)} })

\* GOTMOPTModel._create_seed: host = 0, depth_coordinates is "sigma".
RECURSIVE GOTM_create_seed(_, _)
GOTM_create_seed(k, list) ==
    IF k > Len(seed_data) THEN [list |-> list, raised |-> FALSE]
    ELSE
    LET sigma == seed_data[k][3] IN
    IF DepthInvalid(sigma, GOTM_get_zmin, GOTM_get_zmax)
    THEN [list |-> list, raised |-> TRUE]
    ELSE GOTM_create_seed(k + 1,
            Append(list, NewParticle(seed_data[k][1], seed_data[k][2], sigma, 0,
                                     GOTM_find_zlayer(sigma, 0),
                                     GOTM_get_zmin, GOTM_get_zmax)))

create_seed ==
    IF config.model = "FVCOM" THEN FVCOM_create_seed(1, <<>>, <<>>)
    ELSE GOTM_create_seed(1, <<>>)

\* A ParticleSmartPtr is the cell that holds its Particle and the Particle
\* in it; seed particle k lives in cell k.
\* A copy that hands back the object it was given.
copy_Alias(particle_smart_ptr, free) == particle_smart_ptr

\* copy(particle_smart_ptr): new Particle(deref(...)) in a cell not in use
copy(particle_smart_ptr, free) ==
    [cell |-> free, particle |-> particle_smart_ptr.particle]

\* The loop of seed(): one copy per seed particle, appended in order.  The
\* cells of the active set before are free again once the list is dropped.
ActiveCopy(list) ==
    [k \in 1 .. Len(list) |-> copy([cell |-> k, particle |-> list[k]], Len(list) + k)]

\* seed(time): the seed is created on the first call (the list is assigned
\* before the particles are appended to it, so a ValueError leaves what was
\* built), and the active set becomes a copy of the seed.
Seed ==
    /\ config.model # "none"
    /\ upd.pc = "idle"
    /\ \E made \in {IF particle_seed_smart_ptrs = <<>> THEN create_seed
                     ELSE [list |-> particle_seed_smart_ptrs[1], raised |-> FALSE]} :
          /\ particle_seed_smart_ptrs' = <<made.list>>
          /\ IF made.raised
             THEN /\ err' = "ValueError"
                  /\ UNCHANGED <<particle_smart_ptrs, particle_ptrs>>
             ELSE \E active \in {ActiveCopy(made.list)} :
                  /\ err' = "none"
                  /\ particle_smart_ptrs' = [k \in 1 .. Len(active) |-> active[k].cell]
                  /\ particle_ptrs' = [k \in 1 .. Len(active) |-> active[k].particle]
    /\ diags' = <<>>
    /\ UNCHANGED <<nbe, auxVars, readerVars, config, seed_data, upd>>

\* get_diagnostics(time): one entry per particle of particle_ptrs; the
\* entries are kept as the indices of the particles they were made from.
DiagnosedParticles == { i \in 1 .. Len(particle_ptrs) : TRUE }

GetDiagnostics ==
    /\ config.model # "none"
    /\ upd.pc = "idle"
    /\ diags' = <<DiagnosedParticles>>
    /\ err' = "none"
    /\ UNCHANGED <<nbe, auxVars, readerVars, config, seed_data, particle_seed_smart_ptrs, particle_smart_ptrs,
                   particle_ptrs, upd>>

-----------------------------------------------------------------------------
(* update(time): the loop over particle_ptrs, one particle per step; a     *)
(* particle whose tentative position crossed a land boundary is held in    *)
(* the `while flag == -1' loop, one pass per step.                         *)

\* The velocity of the uniform flow, and the displacement the random walk
\* models add to delta_X.
Flows == { <<0, 0, 0>>, <<3, 0, 0>>, <<0 - 3, 0, 0>> }

Walks == { <<0, 0, 0>>, <<0, 0, 3>>, <<0, 0, 0 - 11>>, <<6, 0, 0>> }

\* The bound the design document puts on the passes of the boundary loop.
max_bc_iters == 10

\* upd.bc_iters counts the passes of the boundary loop up to MaxBcCount and
\* stays there.
MaxBcCount == max_bc_iters + 1

\* The next particle of the loop, or the return of update.
AfterParticle(i) ==
    IF i < Len(particle_ptrs) THEN [IdleUpdate EXCEPT !.pc = "loop", !.i = i + 1]
    ELSE IdleUpdate

UpdateCall ==
    /\ config.model # "none"
    /\ upd.pc = "idle"
    /\ upd' = AfterParticle(0)
    /\ err' = "none"
    /\ diags' = <<>>
    /\ UNCHANGED <<nbe, auxVars, readerVars, config, seed_data, particle_seed_smart_ptrs, particle_smart_ptrs,
                   particle_ptrs>>

\* if particle_ptr.in_domain: ... (else nothing)
UpdateSkip ==
    /\ upd.pc = "loop"
    /\ ~particle_ptrs[upd.i].in_domain
    /\ upd' = AfterParticle(upd.i)
    /\ UNCHANGED <<nbe, auxVars, readerVars, config, seed_data, particle_seed_smart_ptrs, particle_smart_ptrs,
                   particle_ptrs, diags, err>>

\* A driver that never takes the open-boundary branch.
OpenBoundaryIgnored(flag) == FALSE

\* if host_err == -2 / if flag == -2: particle_ptr.in_domain = False; continue
OpenBoundaryCrossed(flag) == flag = 0 - 2

\* while flag == -1
LandBoundaryCrossed(flag) == flag = 0 - 1

\* if flag == 0
StillInDomain(flag) == flag = 0

\* A test of the lower bound only.
OutsideVertically_Below(zpos, zmin, zmax) == zpos < zmin

\* if zpos < zmin or zpos > zmax
OutsideVertically(zpos, zmin, zmax) == zpos < zmin \/ zpos > zmax

\* vert_bc_calculator.apply(zpos, zmin, zmax) of the calculator the
\* configuration names.  The call hands back a position and nothing else:
\* the absorbing-bottom calculator leaves a particle that went through the
\* sea floor on it, and treats the surface as the reflecting one does.
vert_bc_apply(kind, zpos, zmin, zmax) ==
    IF kind = "absorbing_bottom" /\ zpos < zmin THEN zmin
    ELSE VertBCApply(zpos, zmin, zmax)

\* A write-back that finds the z layer of the position before the vertical
\* boundary condition is applied to it.
Moved_LayerFirst(xpos, ypos, zpos0, host) ==
    Only({ NewParticle(xpos, ypos, b[3], host, FVCOM_find_zlayer(zpos0, b[1], b[2]),
                       b[1], b[2]) :
           b \in { <<zmin, zmax, IF OutsideVertically(zpos0, zmin, zmax)
                                 THEN vert_bc_apply(config.vert_bound_cond, zpos0, zmin, zmax)
                                 ELSE zpos0>> :
                   zmin \in {FVCOM_get_zmin(xpos, ypos, host)},
                   zmax \in {FVCOM_get_zmax(xpos, ypos, host)} } })

\* if flag == 0: the vertical boundary condition, the new z layer and the
\* particle as it is written back.
Moved(xpos, ypos, zpos0, host) ==
    Only({ NewParticle(xpos, ypos, b[3], host, FVCOM_find_zlayer(b[3], b[1], b[2]),
                       b[1], b[2]) :
           b \in { <<zmin, zmax, IF OutsideVertically(zpos0, zmin, zmax)
                                 THEN vert_bc_apply(config.vert_bound_cond, zpos0, zmin, zmax)
                                 ELSE zpos0>> :
                   zmin \in {FVCOM_get_zmin(xpos, ypos, host)},
                   zmax \in {FVCOM_get_zmax(xpos, ypos, host)} } })

LeaveDomain(i) ==
    /\ particle_ptrs' = [particle_ptrs EXCEPT ![i].in_domain = FALSE]
    /\ upd' = AfterParticle(i)
    /\ UNCHANGED err

\* The part of FVCOMOPTModel.update after the boundary loop.
FVCOM_Finish(i, xpos, ypos, zpos0, flag, host) ==
    IF OpenBoundaryCrossed(flag) THEN LeaveDomain(i)
    ELSE IF StillInDomain(flag)
    THEN /\ particle_ptrs' = [particle_ptrs EXCEPT ![i] = Moved(xpos, ypos, zpos0, host)]
         /\ upd' = AfterParticle(i)
         /\ UNCHANGED err
    ELSE /\ err' = "ValueError"
         /\ upd' = IdleUpdate
         /\ UNCHANGED particle_ptrs

\* FVCOMOPTModel.update for one particle in the domain, up to the boundary loop.
FVCOM_UpdateParticle(flow, walk) ==
    /\ config.model = "FVCOM"
    /\ upd.pc = "loop"
    /\ particle_ptrs[upd.i].in_domain
    /\ \E p \in {particle_ptrs[upd.i]} :
       \E adv \in {AdvectDelta(p, flow)} :
       \E xpos \in {p.xpos + adv[2][1] + walk[1]},
          ypos \in {p.ypos + adv[2][2] + walk[2]},
          zpos \in {p.zpos + adv[2][3] + walk[3]} :
       \E found \in {find_host(p.xpos, p.ypos, xpos, ypos, p.host_horizontal_elem)} :
           IF OpenBoundaryCrossed(adv[1]) THEN LeaveDomain(upd.i)
           ELSE IF LandBoundaryCrossed(found[1])
           THEN /\ upd' = [upd EXCEPT !.pc = "bc", !.xpos = xpos, !.ypos = ypos,
                                      !.zpos = zpos, !.bc_iters = 0]
                /\ UNCHANGED <<particle_ptrs, err>>
           ELSE FVCOM_Finish(upd.i, xpos, ypos, zpos, found[1], found[2])
    /\ UNCHANGED <<nbe, auxVars, readerVars, config, seed_data, particle_seed_smart_ptrs, particle_smart_ptrs, diags>>

\* One pass of `while flag == -1': apply the horizontal boundary condition
\* and ask find_host again.
FVCOM_BoundaryLoop ==
    /\ upd.pc = "bc"
    /\ \E p \in {particle_ptrs[upd.i]} :
       \E bc \in {HorizBCApply(config.horiz_bound_cond, p.xpos, p.ypos,
                               upd.xpos, upd.ypos, p.host_horizontal_elem)} :
       \E found \in {find_host(p.xpos, p.ypos, bc[2], bc[3], p.host_horizontal_elem)} :
           IF bc[1]
           THEN /\ err' = "RuntimeError"
                /\ upd' = IdleUpdate
                /\ UNCHANGED particle_ptrs
           ELSE IF LandBoundaryCrossed(found[1])
           THEN /\ upd' = [upd EXCEPT !.xpos = bc[2], !.ypos = bc[3],
                              !.bc_iters = IF upd.bc_iters < MaxBcCount
                                           THEN upd.bc_iters + 1 ELSE upd.bc_iters]
                /\ UNCHANGED <<particle_ptrs, err>>
           ELSE FVCOM_Finish(upd.i, bc[2], bc[3], upd.zpos, found[1], found[2])
    /\ UNCHANGED <<nbe, auxVars, readerVars, config, seed_data, particle_seed_smart_ptrs, particle_smart_ptrs, diags>>

\* The displacement the vertical random walk adds to delta_X.z, in sigma units.
SigmaWalks == { 0 - 9, 0 - 3, 0 - 1, 0, 1, 3, 9 }

\* if zpos < zmin: zpos = zmin + zmin - zpos  elif zpos > zmax: zpos = zmax + zmax - zpos
GOTM_Reflect(zpos, zmin, zmax) ==
    IF zpos < zmin THEN zmin + zmin - zpos
    ELSE IF zpos > zmax THEN zmax + zmax - zpos ELSE zpos

\* GOTMOPTModel.update for one particle in the domain.
GOTM_UpdateParticle(dz) ==
    /\ config.model = "GOTM"
    /\ upd.pc = "loop"
    /\ particle_ptrs[upd.i].in_domain
    /\ LET p == particle_ptrs[upd.i]
           zmin == GOTM_get_zmin
           zmax == GOTM_get_zmax
           zpos == GOTM_Reflect(p.zpos + dz, zmin, zmax)
       IN  IF OutsideVertically(zpos, zmin, zmax)
           THEN /\ err' = "ValueError"
                /\ upd' = IdleUpdate
                /\ UNCHANGED particle_ptrs
           ELSE /\ particle_ptrs' = [particle_ptrs EXCEPT ![upd.i] =
                       [p EXCEPT !.zpos = zpos,
                                 !.host_z_layer = GOTM_find_zlayer(zpos, p.host_z_layer),
                                 !.zlo = zmin, !.zhi = zmax]]
                /\ upd' = AfterParticle(upd.i)
                /\ UNCHANGED err
    /\ UNCHANGED <<nbe, auxVars, readerVars, config, seed_data, particle_seed_smart_ptrs, particle_smart_ptrs, diags>>

-----------------------------------------------------------------------------

\* Land everywhere but the right-hand side: element 0 has two land sides.
TopologyA == NbeOf(<<LAND, LAND, LAND, LAND, LAND, OPEN>>)

\* Land everywhere but the left-hand side: element 3 has two land sides.
TopologyB == NbeOf(<<LAND, OPEN, LAND, LAND, LAND, LAND>>)

\* set_particle_data: particles in the domain, one outside the mesh, one
\* below the sea floor.
SeedData ==
    { << <<2, 2, 0 - 1>>, <<8, 2, 0 - 1>> >>,
      << <<4, 4, 0 - 2>>, <<0 - 2, 2, 0 - 1>> >>,
      << <<10, 4, 0 - 1>>, <<2, 2, 0 - 9>> >> }

Init ==
    /\ \/ /\ nbe \in {TopologyA, TopologyB}
          /\ config \in [model : {"FVCOM"}, horiz_bound_cond : {"reflecting", "restoring"},
                         vert_bound_cond : {"reflecting"}]
       \/ /\ nbe = TopologyA
          /\ config = [model |-> "GOTM", horiz_bound_cond |-> "None",
                       vert_bound_cond |-> "reflecting"]
    /\ ls = IdleSearch
    /\ ap = IdleParticle
    /\ seed_data \in SeedData
    /\ particle_seed_smart_ptrs = <<>>
    /\ particle_smart_ptrs = <<>>
    /\ particle_ptrs = <<>>
    /\ upd = IdleUpdate
    /\ diags = <<>>
    /\ err = "none"
    /\ rd = LoadedReader(config.model, 1)
    /\ ord = IdlePass
    /\ calc = IdleCalc
    /\ fs = IdleSample

Next ==
    \/ Seed
    \/ GetDiagnostics
    \/ UpdateCall
    \/ UpdateSkip
    \/ \E flow \in Flows, walk \in Walks : FVCOM_UpdateParticle(flow, walk)
    \/ FVCOM_BoundaryLoop
    \/ \E dz \in SigmaWalks : GOTM_UpdateParticle(dz)

Spec == Init /\ [][Next]_vars

-----------------------------------------------------------------------------
(* One pass of update(time) over the particle array, with the locals that  *)
(* live from one particle to the next: the order the array is visited in,  *)
(* what each particle's integrator and random walks deliver, and delta_X.  *)

\* delta_X carried over from the particle before
reset_Keep(delta_X) == delta_X

\* reset(&delta_X)
reset(delta_X) == <<0, 0, 0>>

\* `while flag == -1': the state of the loop when it is left, as
\* <<how, flag, host, xpos, ypos>>, after n passes from (xpos, ypos).
RECURSIVE BoundaryLoopFrom(_, _, _, _)
BoundaryLoopFrom(p, xpos, ypos, n) ==
    Only({ IF ~LandBoundaryCrossed(found[1]) THEN <<"left", found[1], found[2], xpos, ypos>>
           ELSE IF n >= MaxBcCount THEN <<"looping", found[1], found[2], xpos, ypos>>
           ELSE Only({ IF bc[1] THEN <<"RuntimeError", found[1], found[2], xpos, ypos>>
                       ELSE BoundaryLoopFrom(p, bc[2], bc[3], n + 1) :
                       bc \in {HorizBCApply(config.horiz_bound_cond, p.xpos, p.ypos,
                                            xpos, ypos, p.host_horizontal_elem)} }) :
           found \in {find_host(p.xpos, p.ypos, xpos, ypos, p.host_horizontal_elem)} })

\* The body of the loop of FVCOMOPTModel.update for particle p, entered with
\* delta_X as the particle before left it.
UpdateOne(p, flow, walk, delta_X) ==
    IF ~p.in_domain
    THEN [p |-> p, delta_X |-> delta_X, tentative |-> <<>>, status |-> "ok"]
    ELSE Only({
        IF OpenBoundaryCrossed(adv[1])
        THEN [p |-> [p EXCEPT !.in_domain = FALSE], delta_X |-> d0, tentative |-> <<>>,
              status |-> "ok"]
        ELSE Only({
            Only({
                IF end[1] # "left"
                THEN [p |-> p, delta_X |-> d, tentative |-> t, status |-> end[1]]
                ELSE IF OpenBoundaryCrossed(end[2])
                THEN [p |-> [p EXCEPT !.in_domain = FALSE], delta_X |-> d, tentative |-> t,
                      status |-> "ok"]
                ELSE IF StillInDomain(end[2])
                THEN [p |-> Moved(end[4], end[5], t[3], end[3]), delta_X |-> d,
                      tentative |-> t, status |-> "ok"]
                ELSE [p |-> p, delta_X |-> d, tentative |-> t, status |-> "ValueError"] :
                end \in {BoundaryLoopFrom(p, t[1], t[2], 0)} }) :
            d \in {[i \in 1 .. 3 |-> d0[i] + adv[2][i] + walk[i]]},
            t \in {<<p.xpos + d0[1] + adv[2][1] + walk[1],
                     p.ypos + d0[2] + adv[2][2] + walk[2],
                     p.zpos + d0[3] + adv[2][3] + walk[3]>>} }) :
        adv \in {AdvectDelta(p, flow)}, d0 \in {reset(delta_X)} })

\* The orders a two-particle array can be visited in; the loop of update
\* takes the first.
Orders == { <<1, 2>>, <<2, 1>> }

\* update(time) is entered: delta_X is a local that holds whatever the stack held.
PassCall(order, inputs, garbage) ==
    /\ ord.pc = "idle"
    /\ ord' = [pc |-> "loop", order |-> order, j |-> 0, inputs |-> inputs,
               delta_X |-> garbage, tentative |-> <<>>]
    /\ UNCHANGED <<nbe, readerVars, driverVars, rd, calc, fs>>

\* One turn of the loop over the particle array.
PassStep ==
    /\ ord.pc = "loop"
    /\ \E id \in {ord.order[ord.j + 1]} :
       \E r \in {UpdateOne(particle_ptrs[id], ord.inputs[id][1], ord.inputs[id][2],
                           ord.delta_X)} :
           /\ particle_ptrs' = [particle_ptrs EXCEPT ![id] = r.p]
           /\ err' = IF r.status \in {"ok", "looping"} THEN err ELSE r.status
           /\ ord' = [ord EXCEPT
                        !.pc = IF r.status = "ok"
                               THEN (IF ord.j + 1 = Len(ord.order) THEN "returned" ELSE "loop")
                               ELSE IF r.status = "looping" THEN "looping" ELSE "raised",
                        !.j = ord.j + 1,
                        !.delta_X = r.delta_X,
                        !.tentative = IF r.tentative = <<>> THEN <<>> ELSE <<id>> \o r.tentative]
    /\ UNCHANGED <<nbe, readerVars, config, seed_data, particle_seed_smart_ptrs, particle_smart_ptrs, upd, diags,
                   rd, calc, fs>>

\* The driver after seed(): the active set is a copy of the seed.
PassInit ==
    /\ nbe \in {TopologyA, TopologyB}
    /\ config \in [model : {"FVCOM"}, horiz_bound_cond : {"reflecting", "restoring"},
                   vert_bound_cond : {"reflecting", "absorbing_bottom"}]
    /\ ls = IdleSearch
    /\ ap = IdleParticle
    /\ seed_data \in SeedData
    /\ ~create_seed.raised
    /\ particle_seed_smart_ptrs = <<create_seed.list>>
    /\ \E active \in {ActiveCopy(create_seed.list)} :
          /\ particle_smart_ptrs = [k \in 1 .. Len(active) |-> active[k].cell]
          /\ particle_ptrs = [k \in 1 .. Len(active) |-> active[k].particle]
    /\ upd = IdleUpdate
    /\ diags = <<>>
    /\ err = "none"
    /\ rd = LoadedReader(config.model, 1)
    /\ ord = IdlePass
    /\ calc = IdleCalc
    /\ fs = IdleSample

PassNext ==
    \/ \E order \in Orders, inputs \in [1 .. 2 -> Flows \X Walks],
          garbage \in {<<0, 0, 0>>, <<1, 1, 1>>} : PassCall(order, inputs, garbage)
    \/ PassStep

PassSpec == PassInit /\ [][PassNext]_vars

-----------------------------------------------------------------------------
(* The horizontal boundary condition calculators on their own: the factory  *)
(* and RefHorizBoundaryConditionCalculator.apply, called with a position    *)
(* in last_host and a tentative position anywhere on the grid.  Neither    *)
(* keeps anything between calls, so that a behaviour is one call.           *)

\* get_horiz_boundary_condition_calculator(config): the calculator built for
\* horiz_bound_cond, None, or the exception raised.
get_horiz_boundary_condition_calculator(kind) ==
    IF kind = "reflecting" THEN "RefHorizBoundaryConditionCalculator"
    ELSE IF kind = "None" THEN "None"
    ELSE "ValueError"

\* get_num_integrator(config): the integrator built for num_integrator, or
\* the exception raised.
get_num_integrator(name) ==
    IF name = "RK4" THEN "RK4Integrator" ELSE "ValueError"

GetNumIntegrator(name) ==
    /\ calc.op = "none"
    /\ calc' = [op |-> "get_num_integrator", kind |-> name,
                result |-> get_num_integrator(name)]
    /\ UNCHANGED <<nbe, readerVars, driverVars, rd, ord, fs>>

\* Values of horiz_bound_cond and of num_integrator a run may be configured
\* with: the documented ones, None as the code spells it, and others.
HorizBoundConds == {"reflecting", "restoring", "none", "None", "absorbing"}

NumIntegrators == {"RK4", "Euler", "None"}

GetCalculator(kind) ==
    /\ calc.op = "none"
    /\ calc' = [op |-> "get_horiz_boundary_condition_calculator", kind |-> kind,
                result |-> get_horiz_boundary_condition_calculator(kind)]
    /\ UNCHANGED <<nbe, readerVars, driverVars, rd, ord, fs>>

RefHorizApply(x_old, y_old, x_new, y_new, last_host) ==
    /\ calc.op = "none"
    /\ HostFound(x_old, y_old, last_host)
    /\ \E bc \in {HorizBCApply("reflecting", x_old, y_old, x_new, y_new, last_host)} :
          calc' = [op |-> "apply", x3 |-> <<x_old, y_old>>, x4 |-> <<x_new, y_new>>,
                   last_host |-> last_host, raised |-> bc[1],
                   x4_prime |-> <<bc[2], bc[3]>>]
    /\ UNCHANGED <<nbe, readerVars, driverVars, rd, ord, fs>>

CalcInit ==
    /\ nbe = TopologyA
    /\ ls = IdleSearch
    /\ ap = IdleParticle
    /\ NoDriver
    /\ rd = LoadedReader("FVCOM", 1)
    /\ ord = IdlePass
    /\ calc = IdleCalc
    /\ fs = IdleSample

CalcNext ==
    \/ \E kind \in HorizBoundConds : GetCalculator(kind)
    \/ \E name \in NumIntegrators : GetNumIntegrator(name)
    \/ \E x_old \in GridX, y_old \in GridY, x_new \in GridX, y_new \in GridY,
          last_host \in Elems : RefHorizApply(x_old, y_old, x_new, y_new, last_host)

CalcSpec == CalcInit /\ [][CalcNext]_vars

-----------------------------------------------------------------------------
(* read_data, the mediator behind it, and the reads a particle update makes *)
(* of the reader's buffers.                                                 *)

\* read_data(time) up to its branch: return at once, raise from
\* mediator.update_reading_frames, or go on to _read_time_dependent_vars.
ReadDataCall(time) ==
    /\ rd.pc = "idle"
    /\ IF ~NeedsNewFrame(rd, time)
       THEN /\ rd' = interpolate_in_time([rd EXCEPT !.time = time, !.returned = TRUE], time)
            /\ err' = "none"
       ELSE IF \E i \in Frames : InFrame(time, i)
            THEN \E i \in Frames :
                    /\ InFrame(time, i)
                    /\ rd' = [rd EXCEPT !.time = time, !.returned = FALSE,
                                        !.tidx_last = i, !.tidx_next = i + 1,
                                        !.pc = "refresh", !.k = 0]
                    /\ err' = "none"
            ELSE /\ rd' = [rd EXCEPT !.time = time, !.returned = FALSE]
                 /\ err' = "FieldIOError"
    /\ UNCHANGED <<nbe, readerVars, config, seed_data, particle_seed_smart_ptrs, particle_smart_ptrs,
                   particle_ptrs, upd, diags, ord, calc, fs>>

\* One assignment of _read_time_dependent_vars: the last buffer of a variable,
\* then its next buffer; after the final one read_data returns.
ReadTimeDependentVar ==
    /\ rd.pc = "refresh"
    /\ \E names \in {TimeDependentVars(rd.kind)} :
       \E name \in {names[(rd.k \div 2) + 1]} :
       \E r \in {IF rd.k % 2 = 0
                 THEN [rd EXCEPT !.last[name] = MediatorGet(name, rd.tidx_last)]
                 ELSE [rd EXCEPT !.next[name] = MediatorGet(name, rd.tidx_next)]} :
           IF rd.k + 1 = 2 * Len(names)
           THEN rd' = interpolate_in_time([r EXCEPT !.pc = "idle", !.k = 0,
                                                    !.returned = TRUE], r.time)
           ELSE rd' = [r EXCEPT !.k = rd.k + 1]
    /\ UNCHANGED <<nbe, readerVars, driverVars, ord, calc, fs>>

\* A particle update may read the buffers whatever the reader is doing
CallerMayRun_Threaded == TRUE

\* update(time) is entered after read_input_data(time) has returned
CallerMayRun == rd.pc = "idle"

\* A particle update reads the reader's buffers (get_velocity and the like).
SampleFields ==
    /\ CallerMayRun
    /\ rd' = [rd EXCEPT !.seen = <<[last |-> rd.last, next |-> rd.next]>>]
    /\ UNCHANGED <<nbe, readerVars, driverVars, ord, calc, fs>>

FrameInit ==
    /\ nbe = TopologyA
    /\ ls = IdleSearch
    /\ ap = IdleParticle
    /\ NoDriver
    /\ \E kind \in ReaderKinds, i \in Frames : rd = LoadedReader(kind, i)
    /\ ord = IdlePass
    /\ calc = IdleCalc
    /\ fs = IdleSample

FrameNext ==
    \/ \E time \in CallTimes : ReadDataCall(time)
    \/ ReadTimeDependentVar
    \/ SampleFields

FrameSpec == FrameInit /\ [][FrameNext]_vars

-----------------------------------------------------------------------------
(* The local host search: properties.                                      *)

\* The barycentric coordinates of (x, y) in element e are all >= -EPSILON.
InsideElement(x, y, e) ==
    \A i \in Vertices : GeqMinusEpsilon(PhiNum(x, y, e)[i + 1], Det(e))

\* i is an index at which the barycentric coordinate of (x, y) in e is least.
IsArgMin(i, x, y, e) ==
    \A j \in Vertices : PhiNum(x, y, e)[i + 1] <= PhiNum(x, y, e)[j + 1]

\* C5 (first half): an element index the search returns holds the point.
C5_ReturnedHostHoldsPoint ==
    (ls.pc = "done" /\ ls.ret >= 0) => InsideElement(ls.x, ls.y, ls.ret)

\* C5 (second half): an iteration that does not stop on a found host moves
\* from the current element e to nbe[i, e] for an i of least coordinate.
C5_StepFollowsArgMin ==
    (ls.pc = "walk" /\ ls' # ls /\ ~ls'.found) =>
        \E i \in Vertices : /\ IsArgMin(i, ls.x, ls.y, ls.guess)
                            /\ ls'.guess = Nbe(i, ls.guess)

\* C5: whenever the local host search returns an element index h >= 0 the
\* point's three barycentric coordinates in h are >= -EPSILON, and every
\* step of the walk that does not stop moves from the current element e to
\* nbe[i, e] where i is an index of minimal barycentric coordinate.
C5_LocalSearchSound ==
    [](C5_ReturnedHostHoldsPoint) /\ [][C5_StepFollowsArgMin]_vars

\* C5 witness: a search that walked to another element and returned it.
C5_Witness ==
    /\ ls.pc = "done" /\ ls.ret >= 0 /\ ls.iter >= 2 /\ ls.ret # ls.start

\* C6: when the neighbour the walk selects is a boundary code the search
\* returns at once (LAND_CROSS for -1, OPEN_CROSS for -2), so a negative code
\* is never the index of a further barycentric evaluation or nbe lookup.
C6_BoundaryCodeNeverIndexes == (ls.pc = "walk") => (ls.guess >= 0)

\* C7: the search stops with SEARCH_FAIL when the walk comes back to the
\* element it started from: it is never about to evaluate that element again.
C7_WalkNeverRevisitsStart ==
    ~(ls.pc = "walk" /\ ls.iter >= 1 /\ Wrap(ls.guess, N_elems) = ls.start)

\* C8: once an element e is found to hold the point the search returns e if
\* and only if fewer than two of nbe[0,e], nbe[1,e], nbe[2,e] are -1, and
\* LAND_CROSS (-1) otherwise.
C8_TwoLandBoundaryRule ==
    (ls.pc = "done" /\ ls.found) =>
        ls.ret = (IF ls.n_land < 2 THEN ls.guess ELSE LAND)

-----------------------------------------------------------------------------
(* The RK4 integrator: properties.                                         *)

\* C10: a call to an iterative method (RK4 advect) leaves every field of the
\* particle it was given unchanged: when advect has returned, the particle's
\* position and host are the ones it was called with.
C10_AdvectLeavesParticleUnchanged ==
    (ap.pc = "returned") =>
        /\ ap.xpos = ap.x0
        /\ ap.ypos = ap.y0
        /\ ap.zpos = ap.z0
        /\ ap.host_horizontal_elem = ap.host0

-----------------------------------------------------------------------------
(* The drivers: properties.                                                *)

ParticleIds == 1 .. Len(particle_ptrs)

\* C1: every particle that is still in the domain has a vertical position
\* within the bounds zmin and zmax the driver evaluated when it last set that
\* position, under the FVCOM driver and under the GOTM driver, whatever the
\* displacement of the step.
C1_VerticalPositionWithinBounds ==
    \A i \in ParticleIds :
        particle_ptrs[i].in_domain =>
            /\ particle_ptrs[i].zlo <= particle_ptrs[i].zpos
            /\ particle_ptrs[i].zpos <= particle_ptrs[i].zhi

\* C1 witness: a particle was moved to another element and brought back from
\* below the sea floor to it.
C1_Witness ==
    \E i \in ParticleIds :
        /\ particle_ptrs[i].in_domain
        /\ particle_ptrs[i].xpos # seed_data[i][1]
        /\ particle_ptrs[i].zpos = particle_ptrs[i].zlo
        /\ particle_ptrs[i].zpos # seed_data[i][3]

CrossesOpenBoundary(p, flow, walk) ==
    \E adv \in {AdvectDelta(p, flow)} :
    \/ adv[1] = OPEN_CROSS
    \/ find_host(p.xpos, p.ypos, p.xpos + adv[2][1] + walk[1],
                 p.ypos + adv[2][2] + walk[2], p.host_horizontal_elem)[1] = OPEN_CROSS

\* The step of update that finds the open boundary crossed leaves the
\* particle as it was, but for in_domain.
C3_OpenExit ==
    (upd.pc = "loop" /\ config.model = "FVCOM") =>
        \/ particle_ptrs' = [particle_ptrs EXCEPT ![upd.i].in_domain = FALSE]
        \/ \A flow \in Flows, walk \in Walks :
              ~(/\ CrossesOpenBoundary(particle_ptrs[upd.i], flow, walk)
                /\ FVCOM_UpdateParticle(flow, walk))

\* A particle out of the domain is changed by no step but one of seed.
C3_Terminal ==
    \A i \in ParticleIds :
        (~particle_ptrs[i].in_domain /\ ~Seed) =>
            /\ i <= Len(particle_ptrs')
            /\ particle_ptrs'[i] = particle_ptrs[i]

C4_NoDiagnosticsOutOfDomain ==
    diags # <<>> =>
        \A i \in diags[1] :
            particle_ptrs[i].in_domain \/ particle_ptrs[i] = DefaultParticle

-----------------------------------------------------------------------------
(* The reading frame.                                                       *)

\* The reader holds exactly the records of frame i.
HoldsFrame(r, i) ==
    /\ r.tidx_last = i
    /\ r.tidx_next = i + 1
    /\ \A name \in VarNames(r.kind) :
          /\ r.last[name] = MediatorGet(name, i)
          /\ r.next[name] = MediatorGet(name, i + 1)

SameBuffers(r, s) ==
    /\ r.last = s.last
    /\ r.next = s.next
    /\ r.tidx_last = s.tidx_last
    /\ r.tidx_next = s.tidx_next

C11_CallRule ==
    \A time \in CallTimes :
        ReadDataCall(time) =>
            IF rd.last["time"] <= time /\ time < rd.next["time"]
            THEN /\ SameBuffers(rd, rd')
                 /\ rd'.pc = "idle"
                 /\ (rd.returned /\ time = rd.time) => rd' = rd
            ELSE \/ rd'.pc = "refresh" /\ InFrame(time, rd'.tidx_last)
                 \/ err' = "FieldIOError" /\ SameBuffers(rd, rd')

C11_Returned ==
    (rd.pc = "idle" /\ rd.returned) =>
        /\ rd.last["time"] <= rd.time /\ rd.time < rd.next["time"]
        /\ HoldsFrame(rd, rd.tidx_last)

\* C11: read_data(t) moves the reading frame exactly when t lies outside
\* [time_last, time_next): a call inside the frame changes no buffer and no
\* time reference, a call outside it either fails or reloads every buffer
\* from the frame that holds t, so that a second read_data(t) changes nothing.
C11_ReadDataAdvancesIffOutsideFrame == []C11_Returned /\ [][C11_CallRule]_vars

\* read_data has moved the frame forward and returned.
C11_Witness ==
    /\ rd.pc = "idle"
    /\ rd.returned
    /\ rd.time = 7
    /\ rd.last["time"] = 6

\* C12: whenever a particle update reads the buffers, the time references
\* and every last buffer come from one record of the file, and every next
\* buffer from the record after it.
C12_SnapshotRefreshIsAtomic ==
    \A j \in 1..Len(rd.seen) :
        \E i \in Frames :
            \A name \in VarNames(rd.kind) :
                /\ rd.seen[j].last[name] = MediatorGet(name, i)
                /\ rd.seen[j].next[name] = MediatorGet(name, i + 1)

\* A particle update has read the buffers after read_data reloaded them.
C12_Witness ==
    /\ Len(rd.seen) = 1
    /\ rd.returned
    /\ rd.seen[1].last["time"] = 6
    /\ rd.seen[1].last = rd.last
    /\ rd.tidx_last = 3

-----------------------------------------------------------------------------
(* The pass over the particle array.                                        *)

\* What update makes of particle i of the seeded array when it is the only
\* particle there is.
AloneUpdated(i) ==
    UpdateOne(particle_seed_smart_ptrs[1][i], ord.inputs[i][1], ord.inputs[i][2],
              <<0, 0, 0>>).p

\* C13: whatever the order the array is visited in, a pass leaves every
\* particle as its own update leaves it.
C13_ParticleOrderIrrelevant ==
    ord.pc \in {"returned", "raised"} =>
        \A i \in 1 .. Len(particle_ptrs) : particle_ptrs[i] = AloneUpdated(i)

\* C20: the tentative position handed to find_host is the particle's
\* position before the update plus what the integrator and the random walks
\* deliver for this particle, whatever delta_X held when its turn came.
C20_TentativeFromOwnContributions ==
    ord.pc # "idle" /\ ord.tentative # <<>> =>
        \E id \in {ord.tentative[1]} :
        \E old \in {particle_seed_smart_ptrs[1][id]} :
        \E adv \in {AdvectDelta(old, ord.inputs[id][1])[2]} :
        \E walk \in {ord.inputs[id][2]} :
            /\ ord.tentative[2] = old.xpos + adv[1] + walk[1]
            /\ ord.tentative[3] = old.ypos + adv[2] + walk[2]
            /\ ord.tentative[4] = old.zpos + adv[3] + walk[3]

\* The second particle visited got a tentative position after the first
\* left through the open boundary while it was advected, delta_X having
\* held something at the call.
C20_Witness ==
    /\ ord.pc = "returned"
    /\ ord.j = 2
    /\ ord.tentative # <<>>
    /\ ord.tentative[1] = ord.order[2]
    /\ ~particle_ptrs[ord.order[1]].in_domain
    /\ particle_seed_smart_ptrs[1][ord.order[1]].in_domain
    /\ ord.inputs[ord.order[1]][2] = <<0, 0, 0>>
    /\ ord.delta_X # <<0, 0, 0>>

-----------------------------------------------------------------------------
(* The particle seed and the active particle set.                           *)

\* The cells the seed's ParticleSmartPtr objects own.
SeedCells ==
    IF particle_seed_smart_ptrs = <<>> THEN {}
    ELSE 1 .. Len(particle_seed_smart_ptrs[1])

C14_NoSharedStorage ==
    /\ Len(particle_smart_ptrs) = Len(particle_ptrs)
    /\ \A i \in 1 .. Len(particle_smart_ptrs) : particle_smart_ptrs[i] \notin SeedCells
    /\ \A i, j \in 1 .. Len(particle_smart_ptrs) :
          particle_smart_ptrs[i] = particle_smart_ptrs[j] => i = j

C14_Step ==
    /\ particle_seed_smart_ptrs # <<>> => particle_seed_smart_ptrs' = particle_seed_smart_ptrs
    /\ (Seed /\ err' = "none") => particle_ptrs' = particle_seed_smart_ptrs'[1]

\* C14: the seed is kept apart from the active set: no active particle
\* lives in a cell of the seed, no step changes a seed once it is made, and
\* seed() leaves the active set equal to the seed, particle by particle.
C14_SeedKeptApartFromActiveSet == []C14_NoSharedStorage /\ [][C14_Step]_vars

\* An update has moved an active particle away from its seed.
C14_Witness ==
    /\ particle_seed_smart_ptrs # <<>>
    /\ upd.pc = "idle"
    /\ err = "none"
    /\ Len(particle_ptrs) = 2
    /\ particle_ptrs[1].in_domain
    /\ particle_ptrs[1].xpos # particle_seed_smart_ptrs[1][1].xpos
    /\ particle_smart_ptrs = <<3, 4>>

-----------------------------------------------------------------------------
(* The vertical boundary conditions.                                        *)

\* C15: with vert_bound_cond = absorbing_bottom, a particle whose tentative
\* position lies below zmin where its update puts it is marked and taken
\* out of the set update moves.
C15_AbsorbedAtBottomIsTerminal ==
    (/\ config.vert_bound_cond = "absorbing_bottom"
     /\ ord.pc \in {"loop", "returned"}
     /\ ord.tentative # <<>>) =>
        \E p \in {particle_ptrs[ord.tentative[1]]} :
            ord.tentative[4] < p.zlo => ~p.in_domain

-----------------------------------------------------------------------------
(* The vertical boundary conditions.                                        *)

\* C16: the reflecting vertical boundary condition brings any tentative z
\* outside [zmin, zmax] back inside without raising: reflected at the bound
\* it crossed, reflected again at the other if it overshot, then clamped.
C16_ReflectingVerticalMapsInside ==
    [][ (config.model = "GOTM" /\ upd.pc = "loop") =>
            \A dz \in SigmaWalks :
                GOTM_UpdateParticle(dz) =>
                    /\ err' = "none"
                    /\ particle_ptrs'[upd.i].zpos =
                          VertBCApply(particle_ptrs[upd.i].zpos + dz,
                                      GOTM_get_zmin, GOTM_get_zmax) ]_vars

-----------------------------------------------------------------------------
(* The horizontal boundary conditions.                                      *)

\* The end points <<x1, x2>> of the side of last_host the last call of
\* apply reflected in.
SideReflectedIn ==
    Only({ <<NodeXY(nv((i + 1) % N_VERTICES, calc.last_host)),
             NodeXY(nv((i + 2) % N_VERTICES, calc.last_host))>> :
           i \in {get_boundary_intersection(calc.x3[1], calc.x3[2], calc.x4[1], calc.x4[2],
                                            calc.last_host)} })

\* C17: the reflecting horizontal boundary condition hands back the mirror
\* image of the tentative position in the line of the side crossed:
\* x4' = xi + d - 2 (n . d) / (n . n) n with n the normal of the side and
\* d = x4 - xi, so that the distance from the line is kept with its sign
\* changed and the position along the line is kept; at normal incidence
\* the particle ends on its own path as far inside as it was outside.
C17_ReflectingHorizontalIsMirrorImage ==
    (calc.op = "apply" /\ ~calc.raised) =>
        \E side \in {SideReflectedIn} :
        \E x1 \in {side[1]}, t \in {<<side[2][1] - side[1][1], side[2][2] - side[1][2]>>} :
        \E n \in {<<t[2], 0 - t[1]>>} :
        \E d \in {<<calc.x4[1] - x1[1], calc.x4[2] - x1[2]>>},
           r \in {<<calc.x4_prime[1] - x1[1], calc.x4_prime[2] - x1[2]>>} :
            /\ inner_product(n, r) = 0 - inner_product(n, d)
            /\ inner_product(t, r) = inner_product(t, d)
            /\ \A k \in 1 .. 2 :
                  inner_product(n, n) * (r[k] - d[k]) = 0 - 2 * inner_product(n, d) * n[k]
            /\ inner_product(t, <<calc.x4[1] - calc.x3[1], calc.x4[2] - calc.x3[2]>>) = 0
                  => inner_product(t, <<calc.x4_prime[1] - calc.x3[1],
                                        calc.x4_prime[2] - calc.x3[2]>>) = 0

\* A tentative position that left element 1 through its sloping side at an
\* angle was reflected.
C17_Witness ==
    /\ calc.op = "apply"
    /\ ~calc.raised
    /\ calc.last_host = 1
    /\ calc.x3 = <<4, 4>>
    /\ calc.x4 = <<0, -2>>
    /\ calc.x4_prime = <<8, 6>>

\* C18: horiz_bound_cond = restoring gives the driver a calculator, the one
\* that hands a particle that would cross land its last position back.
C18_RestoringKeepsLastPosition ==
    (calc.op = "get_horiz_boundary_condition_calculator" /\ calc.kind = "restoring") =>
        calc.result = "RestoringHorizBoundaryConditionCalculator"

-----------------------------------------------------------------------------
(* A host search that does not converge.                                    *)

\* No step of FVCOMOPTModel.update for a particle raises ValueError.
C19_Step ==
    (config.model = "FVCOM" /\ upd.pc \in {"loop", "bc"}) => err' # "ValueError"

\* C19: a host search that fails is followed by the global search, and a
\* particle the global search does not find either is marked out of the
\* domain: the update raises nothing and goes on with the next particle.
C19_SearchFailureIsNotFatal == [][C19_Step]_vars

-----------------------------------------------------------------------------
(* The RK4 integrator: a stage that leaves the domain.                      *)

\* The host search of stage 2, 3 or 4 is running.
InStageSearch == ap.pc \in {"stage2", "stage3", "stage4"} /\ ls.pc = "walk"

\* A stage search that selects a boundary code ends with that code, and
\* advect returns on it with the particle as it was handed over.
C21_Step ==
    /\ (InStageSearch /\ ls'.guess \in BoundaryCodes) =>
           (ls'.pc = "done" /\ ls'.ret = ls'.guess)
    /\ (ap.pc \in {"stage2", "stage3", "stage4"} /\ ls.pc = "done"
           /\ ls.ret \in BoundaryCodes /\ ap' # ap) =>
           /\ ap'.pc = "returned"
           /\ ap'.xpos = ap.x0 /\ ap'.ypos = ap.y0 /\ ap'.zpos = ap.z0
           /\ ap'.host_horizontal_elem = ap.host0

\* C21: when the host search at the position of stage 2, 3 or 4 meets a land
\* or an open boundary, advect returns early with that status, land told
\* from open, and with the particle's position and host unchanged.
C21_StageBoundaryHitReturnsEarly == [][C21_Step]_vars

-----------------------------------------------------------------------------
(* The factories.                                                           *)

\* BOUNDARY_CONDITIONS.horiz_bound_cond as documented.
DocumentedHorizBoundConds == {"reflecting", "restoring", "none"}

\* C22: the factories accept every documented configuration value and raise
\* for everything else: get_horiz_boundary_condition_calculator returns a
\* calculator for reflecting and restoring and no calculator for none, and
\* raises for any other value; get_num_integrator raises for any name but
\* that of an integrator it supports.
C22_FactoriesAcceptDocumentedValuesOnly ==
    /\ calc.op = "get_horiz_boundary_condition_calculator" =>
           /\ calc.kind \in DocumentedHorizBoundConds <=> calc.result # "ValueError"
           /\ calc.kind \in {"reflecting", "restoring"} => calc.result # "None"
           /\ calc.kind = "none" => calc.result = "None"
    /\ calc.op = "get_num_integrator" =>
           (calc.kind = "RK4" <=> calc.result # "ValueError")

-----------------------------------------------------------------------------
(* The local host search: two least coordinates.                            *)

\* The indices at which the barycentric coordinate of the point the search
\* looks for is least in the element the walk is in.
TiedIndices == { i \in Vertices : IsLeast(i, ls.x, ls.y, ls.guess) }

\* An iteration of the walk that leaves an element of the mesh goes to the
\* neighbour the tie rule names.
C24_Step ==
    (ls.pc = "walk" /\ ls.guess >= 0 /\ ~HostFound(ls.x, ls.y, ls.guess) /\ ls' # ls) =>
        /\ ls'.guess = Nbe(TieIndex(ls.x, ls.y, ls.guess), ls.guess)
        /\ (ls'.pc = "done" /\ ls'.ret = LAND) =>
               \A i \in TiedIndices : Nbe(i, ls.guess) = LAND

\* C24: when two barycentric coordinates are equal minima the walk goes to a
\* neighbour that is an element rather than to an open boundary, and to an
\* open boundary rather than to land, the lower index deciding between two
\* of a kind: it never ends on land at a tie whose other side leads to an
\* element or an open boundary.
C24_TieRulePrefersElements == [][C24_Step]_vars

-----------------------------------------------------------------------------
(* The field samplers of the FVCOM reader, one call at a time: the sigma    *)
(* layers that bound the particle, the time fraction, and the values at     *)
(* the element centres the horizontal interpolation is fed with.  A value   *)
(* of a buffer is known by the variable, the sigma layer and the element    *)
(* it is read at; sigma is in SigmaSteps-ths and is the same at the three   *)
(* nodes of the host, so that _interp_on_sigma_layer(phi, host, k) is       *)
(* siglay[k + 1].                                                           *)

\* One unit of sigma is 1 / SigmaSteps.
SigmaSteps == 4

n_siglay_max == 3

\* z in sigma coordinates, from the sea floor to the surface.
SigmaPositions == (0 - SigmaSteps) .. 0

\* Sigma layers that decrease strictly with the index.
SigLays ==
    { s \in UNION { [1 .. n -> SigmaPositions] : n \in 1 .. n_siglay_max } :
        \A k \in 1 .. (Len(s) - 1) : s[k] > s[k + 1] }

\* An element in the middle of three others, which lie on the boundary.
InteriorTopology ==
    (0 :> <<1, 2, 3>>) @@ (1 :> <<0, LAND, LAND>>) @@ (2 :> <<0, LAND, OPEN>>)
        @@ (3 :> <<0, LAND, LAND>>)

\* A search of the middle of the water column that stops one layer early.
MiddleLayers_Short(n_siglay) == 1 .. (n_siglay - 2)

\* for k in xrange(1, self._n_siglay)
MiddleLayers(n_siglay) == 1 .. (n_siglay - 1)

\* A local that was not assigned.
Unassigned == 0 - 1

\* The search for the sigma layers that bound zpos: the top layer, the bottom
\* layer, then the first layer of the middle that is not above zpos.
FindSigmaLayers(siglay, zpos) ==
    LET n_siglay == Len(siglay)
        none == [particle_found |-> FALSE,
                 particle_at_surface_or_bottom_boundary |-> FALSE,
                 k_boundary |-> Unassigned, k_lower_layer |-> Unassigned,
                 k_upper_layer |-> Unassigned]
    IN  IF zpos >= siglay[0 + 1]
        THEN [none EXCEPT !.particle_found = TRUE,
                          !.particle_at_surface_or_bottom_boundary = TRUE,
                          !.k_boundary = 0]
        ELSE IF zpos <= siglay[(n_siglay - 1) + 1]
        THEN [none EXCEPT !.particle_found = TRUE,
                          !.particle_at_surface_or_bottom_boundary = TRUE,
                          !.k_boundary = n_siglay - 1]
        ELSE Only({ IF ks = {} THEN none
               ELSE [none EXCEPT !.particle_found = TRUE,
                                 !.k_lower_layer = Min(ks),
                                 !.k_upper_layer = Min(ks) - 1] :
               ks \in {{ k \in MiddleLayers(n_siglay) : zpos >= siglay[k + 1] }} })

\* time_fraction < 0.0 or time_fraction > 1.0, and the same for sigma
FractionInvalid(f) == f[1] < 0 \/ f[1] > f[2]

\* nbe_min = int_min(int_min(nbe[0, host], nbe[1, host]), nbe[2, host])
nbe_min(host) == Min({ Nbe(i, host) : i \in Vertices })

\* uc[0 .. 3] for variable name: the host's value on layer k_host, then for
\* i in xrange(3) the value read on layer k at element elem(i).
CentreValues(name, k, host, others) ==
    <<  <<name, k, host>>, <<name, k, others[1]>>, <<name, k, others[2]>>,
        <<name, k, others[3]>>  >>

Neighbours(host) == <<Nbe(0, host), Nbe(1, host), Nbe(2, host)>>

\* The arrays handed to _interpolate_vel_between_elements: on k_boundary the
\* loop reads the buffers at neighbour, between two layers it reads them at
\* host.
CentresRead(layers, host) ==
    IF nbe_min(host) < 0
    THEN [lls |-> FALSE, uc1 |-> <<>>, vc1 |-> <<>>, uc2 |-> <<>>, vc2 |-> <<>>]
    ELSE IF layers.particle_at_surface_or_bottom_boundary
    THEN [lls |-> TRUE,
          uc1 |-> CentreValues("u", layers.k_boundary, host, Neighbours(host)),
          vc1 |-> CentreValues("v", layers.k_boundary, host, Neighbours(host)),
          uc2 |-> <<>>, vc2 |-> <<>>]
    ELSE [lls |-> TRUE,
          uc1 |-> CentreValues("u", layers.k_lower_layer, host, <<host, host, host>>),
          vc1 |-> CentreValues("v", layers.k_lower_layer, host, <<host, host, host>>),
          uc2 |-> CentreValues("u", layers.k_upper_layer, host, <<host, host, host>>),
          vc2 |-> CentreValues("v", layers.k_upper_layer, host, <<host, host, host>>)]

\* sigma_fraction, for a particle between two layers
SigmaFraction(layers, siglay, zpos) ==
    get_linear_fraction(zpos, siglay[layers.k_lower_layer + 1],
                        siglay[layers.k_upper_layer + 1])

\* What _get_uv_velocity_using_linear_least_squares_interpolation raises, if
\* anything, in the order it tests.
UVRaised(layers, time_fraction, siglay, zpos) ==
    IF ~layers.particle_found THEN "ValueError: not found"
    ELSE IF FractionInvalid(time_fraction) THEN "ValueError: Time out of range."
    ELSE IF layers.particle_at_surface_or_bottom_boundary THEN "none"
    ELSE IF FractionInvalid(SigmaFraction(layers, siglay, zpos))
    THEN "ValueError: Sigma out of range."
    ELSE "none"

\* _get_uv_velocity_using_linear_least_squares_interpolation(time, xpos, ypos,
\* zpos, host, vel)
GetUVVelocity(time, zpos, host, siglay, full_logging) ==
    /\ fs.op = "none"
    /\ \E layers \in {FindSigmaLayers(siglay, zpos)},
          time_fraction \in {get_linear_fraction(time, rd.last["time"], rd.next["time"])} :
       \E raised \in {UVRaised(layers, time_fraction, siglay, zpos)} :
          fs' = [op |-> "get_uv_velocity", time |-> time, zpos |-> zpos, host |-> host,
                 siglay |-> siglay, full_logging |-> full_logging, layers |-> layers,
                 time_fraction |-> time_fraction, raised |-> raised,
                 centres |-> IF raised \in {"none", "ValueError: Sigma out of range."}
                             THEN CentresRead(layers, host)
                             ELSE [lls |-> FALSE, uc1 |-> <<>>, vc1 |-> <<>>,
                                   uc2 |-> <<>>, vc2 |-> <<>>]]
    /\ UNCHANGED <<nbe, readerVars, driverVars, rd, ord, calc>>

\* The sigma levels: level k is at -k / SigmaSteps.
siglev == [k \in 1 .. (SigmaSteps + 1) |-> 1 - k]

\* _get_omega_velocity(time, xpos, ypos, zpos, host, phi): the first pair of
\* levels with zpos between them, the time fraction as it is computed, and
\* the test of the sigma fraction.
GetOmegaVelocity(time, zpos, host, full_logging) ==
    /\ fs.op = "none"
    /\ \E found \in {{ i \in 0 .. (SigmaSteps - 1) :
                       zpos <= siglev[i + 1] /\ zpos >= siglev[(i + 1) + 1] }},
          time_fraction \in {get_linear_fraction(time, rd.last["time"], rd.next["time"])} :
          fs' = [op |-> "get_omega_velocity", time |-> time, zpos |-> zpos, host |-> host,
                 full_logging |-> full_logging, time_fraction |-> time_fraction,
                 raised |-> IF found = {} THEN "ValueError: not found"
                            ELSE IF FractionInvalid(get_linear_fraction(zpos,
                                        siglev[(Min(found) + 1) + 1], siglev[Min(found) + 1]))
                            THEN "ValueError: Sigma out of range."
                            ELSE "none"]
    /\ UNCHANGED <<nbe, readerVars, driverVars, rd, ord, calc>>

\* zpos_increment = 1.0e-3 of a water column one sigma unit deep, and
\* (zmax - zmin) / 1000.0 in the mock reader: one unit of z here.
increments_per_column == 1000

DerivativeReaders == {"FVCOMDataReader", "GOTMDataReader", "MockVerticalDiffusivityDataReader"}

\* get_zmin and get_zmax of the reader, in increments: -1.0 and 0.0 in sigma,
\* 0.0 and 40.0 in the mock reader.
ColumnMin(reader) ==
    IF reader = "MockVerticalDiffusivityDataReader" THEN 0 ELSE 0 - increments_per_column

ColumnMax(reader) ==
    IF reader = "MockVerticalDiffusivityDataReader" THEN increments_per_column ELSE 0

\* The increment after `if ((zpos + zpos_increment) > ...)': the two readers
\* assign zpos_increment = -zpos_increment, the mock reader assigns
\* z_increment, a name it reads nowhere.
SignedIncrement(reader, zpos) ==
    IF reader = "MockVerticalDiffusivityDataReader" THEN 1
    ELSE IF zpos + 1 > 0 THEN 0 - 1 ELSE 1

\* get_vertical_eddy_diffusivity_derivative: the probe point and the
\* increment k2 - k1 is divided by.
GetVerticalEddyDiffusivityDerivative(reader, zpos) ==
    /\ fs.op = "none"
    /\ \E zpos_increment \in {SignedIncrement(reader, zpos)} :
          fs' = [op |-> "get_vertical_eddy_diffusivity_derivative", reader |-> reader,
                 zpos |-> zpos, zpos_incremented |-> zpos + zpos_increment,
                 divisor |-> zpos_increment]
    /\ UNCHANGED <<nbe, readerVars, driverVars, rd, ord, calc>>

SampleInit ==
    /\ nbe \in {TopologyA, InteriorTopology}
    /\ ls = IdleSearch
    /\ ap = IdleParticle
    /\ NoDriver
    /\ \E i \in Frames : rd = LoadedReader("FVCOM", i)
    /\ ord = IdlePass
    /\ calc = IdleCalc
    /\ fs = IdleSample

\* A sample is taken when none is in hand: the guard of the three samplers,
\* tested before their arguments are drawn.
SamplerIdle == fs.op = "none"

SampleNext ==
    \/ /\ SamplerIdle
       /\ \E time \in CallTimes, zpos \in SigmaPositions, host \in Elems, siglay \in SigLays,
             full_logging \in BOOLEAN : GetUVVelocity(time, zpos, host, siglay, full_logging)
    \/ /\ SamplerIdle
       /\ \E time \in CallTimes, zpos \in SigmaPositions, host \in Elems,
             full_logging \in BOOLEAN : GetOmegaVelocity(time, zpos, host, full_logging)
    \/ /\ SamplerIdle
       /\ \E reader \in DerivativeReaders :
          \E zpos \in ColumnMin(reader) .. ColumnMax(reader) :
             GetVerticalEddyDiffusivityDerivative(reader, zpos)

SampleSpec == SampleInit /\ [][SampleNext]_vars

-----------------------------------------------------------------------------
(* The field samplers: properties.                                          *)

\* The fraction f clamped to [0, 1].
ClampedFraction(f) == IF f[1] < 0 THEN <<0, f[2]>> ELSE IF f[1] > f[2] THEN <<f[2], f[2]>> ELSE f

\* C23: with full_logging false a time fraction outside [0, 1] (a sample at
\* t + time_step past t_next, say) is clamped to [0, 1] and the sample
\* returns a value: the sampler raises nothing on account of the time.
C23_OutOfRangeFractionIsClamped ==
    (fs.op \in {"get_uv_velocity", "get_omega_velocity"} /\ ~fs.full_logging
        /\ FractionInvalid(get_linear_fraction(fs.time, rd.last["time"], rd.next["time"]))) =>
        /\ fs.raised # "ValueError: Time out of range."
        /\ fs.time_fraction =
              ClampedFraction(get_linear_fraction(fs.time, rd.last["time"], rd.next["time"]))

\* C26: in an element with three neighbours the four centre values are the
\* host's and those of nbe[0 .. 2, host], on the same sigma layer, in the
\* boundary layer and on the lower and the upper layer between two layers,
\* for u and for v.
C26_CentreValuesAreHostAndNeighbours ==
    (fs.op = "get_uv_velocity" /\ fs.centres.lls) =>
        \A name \in {"u", "v"} :
        \E lower \in {IF name = "u" THEN fs.centres.uc1 ELSE fs.centres.vc1},
           upper \in {IF name = "u" THEN fs.centres.uc2 ELSE fs.centres.vc2} :
           IF fs.layers.particle_at_surface_or_bottom_boundary
           THEN lower = CentreValues(name, fs.layers.k_boundary, fs.host,
                                     Neighbours(fs.host))
           ELSE /\ lower = CentreValues(name, fs.layers.k_lower_layer, fs.host,
                                        Neighbours(fs.host))
                /\ upper = CentreValues(name, fs.layers.k_upper_layer, fs.host,
                                        Neighbours(fs.host))

\* C27: for sigma layers that decrease strictly and z in [-1, 0] the search
\* finds the particle: at or above layer 0, or at or below layer N - 1, that
\* layer is the boundary layer and nothing is interpolated vertically;
\* otherwise k_upper = k_lower - 1 with sigma[k_lower] <= z <= sigma[k_upper],
\* so the vertical fraction lies in [0, 1].
C27_SigmaLayerSearchFinds ==
    (fs.op = "get_uv_velocity") =>
        \E n \in {Len(fs.siglay)}, l \in {fs.layers} :
        /\ l.particle_found
        /\ l.particle_at_surface_or_bottom_boundary <=>
              (fs.zpos >= fs.siglay[1] \/ fs.zpos <= fs.siglay[n])
        /\ l.particle_at_surface_or_bottom_boundary =>
              l.k_boundary = (IF fs.zpos >= fs.siglay[1] THEN 0 ELSE n - 1)
        /\ ~l.particle_at_surface_or_bottom_boundary =>
              /\ l.k_lower_layer \in 1 .. (n - 1)
              /\ l.k_upper_layer = l.k_lower_layer - 1
              /\ fs.siglay[l.k_lower_layer + 1] <= fs.zpos
              /\ fs.zpos <= fs.siglay[l.k_upper_layer + 1]
              /\ ~FractionInvalid(SigmaFraction(l, fs.siglay, fs.zpos))
        /\ fs.raised \notin {"ValueError: not found", "ValueError: Sigma out of range."}

\* A particle strictly between the second and the third of three layers.
C27_Witness ==
    /\ fs.op = "get_uv_velocity"
    /\ fs.raised = "none"
    /\ Len(fs.siglay) = 3
    /\ fs.layers.k_lower_layer = 2
    /\ fs.layers.k_upper_layer = 1
    /\ fs.siglay[3] < fs.zpos
    /\ fs.zpos < fs.siglay[2]

\* C25: for z in [zmin, zmax] the probe point z + increment of
\* get_vertical_eddy_diffusivity_derivative lies in [zmin, zmax]: the
\* increment is negative exactly when z + increment would pass the upper
\* bound, and the difference is divided by the increment the probe was
\* placed with.
C25_ProbeStaysInColumn ==
    (fs.op = "get_vertical_eddy_diffusivity_derivative") =>
        /\ fs.zpos_incremented >= ColumnMin(fs.reader)
        /\ fs.zpos_incremented <= ColumnMax(fs.reader)
        /\ (fs.divisor < 0) <=> (fs.zpos + 1 > ColumnMax(fs.reader))
        /\ fs.zpos_incremented = fs.zpos + fs.divisor

-----------------------------------------------------------------------------
(* RK4Integrator.advect as a whole, for velocity fields that vary with the  *)
(* time, the position and the host they are sampled at: what each stage     *)
(* evaluates, and the position written back.  The time step is six units,   *)
(* so that every stage position and the displacement are whole numbers.     *)

\* RK4Integrator(time_step)
StageTimeSteps == {6}

\* The times advect is called at.
StageTimes == {0, 1}

\* The data readers advect samples: get_velocity(t, xpos, ypos, zpos, host, vel).
VelocityFields ==
    [kind : {"uniform"}, u : {0 - 1, 0, 1}, v : {0 - 1, 0, 1}]
        \cup [kind : {"by_host", "by_time", "by_position"}, u : {1}, v : {0}]

Velocity(field, t, xpos, ypos, zpos, host) ==
    CASE field.kind = "uniform" -> <<field.u, field.v, 1>>
      [] field.kind = "by_host" -> <<IF Wrap(host, N_elems) % 2 = 0 THEN 1 ELSE 0, 0, host>>
      [] field.kind = "by_time" -> <<IF t % 2 = 0 THEN 1 ELSE 0, 0, t>>
      [] OTHER -> <<IF ypos < 3 THEN 1 ELSE 0, IF xpos < 6 THEN 0 ELSE 0 - 1, zpos>>

\* The walk went on for more than MaxWalk iterations.
Diverges == 0 - 9

\* find_host_using_local_search(xpos, ypos, guess) as a whole, with the value
\* its unassigned local n_host_land_boundaries holds.
RECURSIVE LocalSearchFrom(_, _, _, _, _)
LocalSearchFrom(xpos, ypos, guess, n_host_land_boundaries, iter) ==
    IF HostFound(xpos, ypos, guess)
    THEN IF n_host_land_boundaries < 2 THEN guess ELSE 0 - 1
    ELSE Only({ IF g = 0 - 1 THEN g
                ELSE IF iter >= MaxWalk THEN Diverges
                ELSE LocalSearchFrom(xpos, ypos, g, n_host_land_boundaries, iter + 1) :
                g \in {LocalSearchNext(xpos, ypos, guess)} })

\* t of stage n: time, time + 0.5 * time_step twice, time + time_step
StageTime(n, time, h) ==
    IF n = 1 THEN time ELSE IF n = 4 THEN time + h ELSE time + h \div 2

\* A step that puts stage 4 half a step along k3, as stages 2 and 3 are.
StageShift_Half(n, k) == [i \in 1 .. 3 |-> k[i] \div 2]

\* particle + 0.5 * k for stages 2 and 3, particle + k for stage 4
StageShift(n, k) == [i \in 1 .. 3 |-> IF n = 4 THEN k[i] ELSE k[i] \div 2]

\* One evaluation of the velocity: where, when, in which host, and the k
\* it gives.
Evaluate(h, field, t, pos, host) ==
    [t |-> t, pos |-> pos, host |-> host,
     k |-> [i \in 1 .. 3 |-> h * Velocity(field, t, pos[1], pos[2], pos[3], host)[i]]]

\* Stages n .. 4 after the evaluations evals of the stages before: the
\* evaluations made, and whether a find_host returned -1 (or never returned).
RECURSIVE Stages(_, _, _, _, _, _, _)
Stages(n, h, field, time, p, garbage, evals) ==
    IF n > 4 THEN [evals |-> evals, host |-> 0]
    ELSE IF n = 1
    THEN Stages(2, h, field, time, p, garbage,
                <<Evaluate(h, field, time, <<p.xpos, p.ypos, p.zpos>>,
                           p.host_horizontal_elem)>>)
    ELSE Only({ Only({ IF host \in {0 - 1, Diverges} THEN [evals |-> evals, host |-> host]
                       ELSE Stages(n + 1, h, field, time, p, garbage,
                                   Append(evals, Evaluate(h, field, StageTime(n, time, h),
                                                          pos, host))) :
                       host \in {LocalSearchFrom(pos[1], pos[2], evals[n - 1].host,
                                                 garbage[n - 1], 0)} }) :
                pos \in { <<p.xpos + s[1], p.ypos + s[2], p.zpos + s[3]>> :
                          s \in {StageShift(n, evals[n - 1].k)} } })

\* (k1 + 2.0*k2 + 2.0*k3 + k4)/6.0
Displacement(evals) ==
    [i \in 1 .. 3 |->
        (evals[1].k[i] + 2 * evals[2].k[i] + 2 * evals[3].k[i] + evals[4].k[i]) \div 6]

\* advect(time, particle, data_reader): the particle as it is left, with the
\* evaluations made on the way.
Advect(h, field, time, p, garbage) ==
    /\ ap.pc = "idle"
    /\ ls.pc = "idle"
    /\ \E st \in {Stages(1, h, field, time, p, garbage, <<>>)} :
          /\ st.host # Diverges
          /\ \E called \in {[pc |-> "advected", h |-> h, field |-> field, time |-> time,
                            x0 |-> p.xpos, y0 |-> p.ypos, z0 |-> p.zpos,
                            host0 |-> p.host_horizontal_elem, evals |-> st.evals,
                            xpos |-> p.xpos, ypos |-> p.ypos, zpos |-> p.zpos,
                            host_horizontal_elem |-> p.host_horizontal_elem,
                            committed |-> FALSE]} :
             IF Len(st.evals) < 4
             THEN ap' = called
             ELSE \E d \in {Displacement(st.evals)} :
                  \E host \in {LocalSearchFrom(p.xpos + d[1], p.ypos + d[2],
                                               st.evals[4].host, garbage[4], 0)} :
                     /\ host # Diverges
                     /\ ap' = IF host = 0 - 1 THEN called
                              ELSE [called EXCEPT !.xpos = p.xpos + d[1],
                                                  !.ypos = p.ypos + d[2],
                                                  !.zpos = p.zpos + d[3],
                                                  !.host_horizontal_elem = host,
                                                  !.committed = TRUE]
    /\ UNCHANGED <<nbe, auxVars, ls, driverVars>>

StageInit ==
    /\ nbe \in {TopologyA, TopologyB}
    /\ ls = IdleSearch
    /\ ap = IdleParticle
    /\ NoDriver
    /\ rd = LoadedReader("FVCOM", 1)
    /\ ord = IdlePass
    /\ calc = IdleCalc
    /\ fs = IdleSample

StageNext ==
    \E h \in StageTimeSteps, field \in VelocityFields, time \in StageTimes,
       p \in StartParticles, garbage \in [1 .. 4 -> UninitInts] :
          Advect(h, field, time, p, garbage)

StageSpec == StageInit /\ [][StageNext]_vars

\* The evaluation stage n makes when the stage before evaluated at prev.
StageEvaluates(n, prev, this) ==
    /\ this.t = StageTime(n, ap.time, ap.h)
    /\ \A i \in 1 .. 3 :
          2 * (this.pos[i] - <<ap.x0, ap.y0, ap.z0>>[i]) = (IF n = 4 THEN 2 ELSE 1) * prev.k[i]
    /\ this.host = LocalSearchFrom(this.pos[1], this.pos[2], prev.host, 0, 0)
    /\ this.k = [i \in 1 .. 3 |->
                    ap.h * Velocity(ap.field, this.t, this.pos[1], this.pos[2], this.pos[3],
                                    this.host)[i]]

\* C28: one step of size h from p at time t evaluates the velocity at the
\* times t, t + h/2, t + h/2, t + h at the positions p, p + k1/2, p + k2/2,
\* p + k3, where k_i is h times the velocity of stage i, each stage in the
\* host found for its position from the host of the stage before, and its
\* displacement is (k1 + 2 k2 + 2 k3 + k4) / 6 in each coordinate.
C28_RK4StagesAndWeights ==
    (ap.pc = "advected" /\ ap.committed) =>
        /\ Len(ap.evals) = 4
        /\ ap.evals[1] = Evaluate(ap.h, ap.field, ap.time, <<ap.x0, ap.y0, ap.z0>>, ap.host0)
        /\ \A n \in 2 .. 4 : StageEvaluates(n, ap.evals[n - 1], ap.evals[n])
        /\ \A i \in 1 .. 3 :
              6 * (<<ap.xpos, ap.ypos, ap.zpos>>[i] - <<ap.x0, ap.y0, ap.z0>>[i]) =
                 ap.evals[1].k[i] + 2 * ap.evals[2].k[i] + 2 * ap.evals[3].k[i]
                    + ap.evals[4].k[i]

\* A step through three elements in a field that depends on the host: the
\* four stages give four different k.
C28_Witness ==
    /\ ap.pc = "advected"
    /\ ap.committed
    /\ ap.field.kind = "by_host"
    /\ ap.evals[1].host # ap.evals[2].host
    /\ ap.evals[2].k # ap.evals[1].k
    /\ ap.evals[4].pos # ap.evals[2].pos
    /\ ap.xpos # ap.x0

-----------------------------------------------------------------------------
(* What update writes to a particle.                                       *)

\* The five fields a step of a particle ends in.
StepFields(p) ==
    <<p.xpos, p.ypos, p.zpos, p.host_horizontal_elem, p.host_z_layer>>

\* The five fields fit together: the position lies in the host element,
\* between the sea floor and the surface there, in the layer recorded.
FVCOM_FieldsAgree(p) ==
    /\ p.host_horizontal_elem \in Elems
    /\ HostFound(p.xpos, p.ypos, p.host_horizontal_elem)
    /\ \E zmin \in {FVCOM_get_zmin(p.xpos, p.ypos, p.host_horizontal_elem)},
          zmax \in {FVCOM_get_zmax(p.xpos, p.ypos, p.host_horizontal_elem)} :
          /\ ~OutsideVertically(p.zpos, zmin, zmax)
          /\ p.host_z_layer = FVCOM_find_zlayer(p.zpos, zmin, zmax)

C29_Step ==
    upd.pc \in {"loop", "bc"} =>
        /\ Len(particle_ptrs') = Len(particle_ptrs)
        /\ \A i \in 1 .. Len(particle_ptrs) :
              StepFields(particle_ptrs'[i]) # StepFields(particle_ptrs[i]) =>
                  /\ i = upd.i
                  /\ err' = "none"
                  /\ particle_ptrs'[i].in_domain
                  /\ config.model = "FVCOM" => FVCOM_FieldsAgree(particle_ptrs'[i])
                  /\ config.model = "GOTM" =>
                        /\ particle_ptrs'[i].xpos = particle_ptrs[i].xpos
                        /\ particle_ptrs'[i].ypos = particle_ptrs[i].ypos
                        /\ particle_ptrs'[i].host_horizontal_elem
                              = particle_ptrs[i].host_horizontal_elem
                        /\ InLayer(particle_ptrs'[i].zpos, particle_ptrs'[i].host_z_layer)
        /\ (err' # "none" \/ \E i \in 1 .. Len(particle_ptrs) :
                                particle_ptrs[i].in_domain /\ ~particle_ptrs'[i].in_domain)
              => \A i \in 1 .. Len(particle_ptrs) :
                    StepFields(particle_ptrs'[i]) = StepFields(particle_ptrs[i])

====
